---- MODULE Spec2Model ----
(***************************************************************************)
(* State-machine model of the x_scraper discovery-and-extraction pipeline. *)
(*   find_links / extractLinks / saveSimpleContent   (src/src/main.ts)     *)
(*   safeNavigate, extractIds, processTweetContent,                        *)
(*   processMultipleTweets                   (src/src/test_twitter.ts)     *)
(* Strings are sequences of tokens: "/" is the path separator, ORIGIN is   *)
(* the literal 'https://x.com', every other token is a run of characters   *)
(* without '/'.                                                            *)
(***************************************************************************)
EXTENDS Integers, Sequences, FiniteSets, TLC

\* ------------------------------------------------------------------------
\* Bounds of the model
\* ------------------------------------------------------------------------
MaxLimit == 2        \* limit (max_links) ranges over 0..MaxLimit
MaxMaxId == 2        \* max_id (max_posts) is 0 or MaxMaxId
MaxArticles == 2     \* articles rendered (examined) per extractLinks call
MaxScrolls == 5      \* scroll cycles explored per run
MaxBatch == 2        \* length of the list given to processMultipleTweets
MaxFaults == 1       \* I/O failures (navigation, download, write) per run
MaxResponses == 1    \* 429 responses received by the page per run
MaxRequests == 3     \* requests the route handler sees while capturing
MaxCalls == 3        \* calls of get_browser_with_session and login per run

\* ------------------------------------------------------------------------
\* Strings
\* ------------------------------------------------------------------------
ORIGIN == "https://x.com"
SLASH == "/"

H1 == <<SLASH, "alice", SLASH, "status", SLASH, "1">>
H2 == <<SLASH, "bob", SLASH, "status", SLASH, "429">>
HShort == <<SLASH, "i">>

\* hrefs the timeline can show in 'a:has(time)'
Hrefs == {H1, H2, HShort}

\* tokens that consist of decimal digits only
DigitTokens == {"1", "429"}

\* documents a page shows besides post pages: about:blank and initial_url
BLANK == <<"about:blank">>
PROFILE == <<ORIGIN, SLASH, "profile">>

\* `https://x.com${href}`
ToUrl(href) == <<ORIGIN>> \o href

RECURSIVE IndexOfFrom(_, _, _)
IndexOfFrom(s, tok, i) ==
  IF i > Len(s) THEN 0
  ELSE IF s[i] = tok THEN i
  ELSE IndexOfFrom(s, tok, i + 1)

\* link.replace('https://x.com', ''): drops the first occurrence only
RemoveFirstOrigin(s) ==
  LET k == IndexOfFrom(s, ORIGIN, 1) IN
    IF k = 0 THEN s
    ELSE SubSeq(s, 1, k - 1) \o SubSeq(s, k + 1, Len(s))

RECURSIVE SplitFrom(_, _, _)
SplitFrom(s, i, cur) ==
  IF i > Len(s) THEN <<cur>>
  ELSE IF s[i] = SLASH THEN <<cur>> \o SplitFrom(s, i + 1, <<>>)
  ELSE SplitFrom(s, i + 1, Append(cur, s[i]))

\* href.split('/')
SplitSlash(s) == SplitFrom(s, 1, <<>>)

\* Array.from(set): the elements of a sequence, and membership in it
Range(s) == {s[i] : i \in 1..Len(s)}

\* variant: nothing is filtered out
SelectNotIn_NoFilter(urls, done) == urls

\* finalLinks.filter(link => !processedTweets.has(link.replace(...)))
RECURSIVE SelectNotIn(_, _)
SelectNotIn(urls, done) ==
  IF urls = <<>> THEN <<>>
  ELSE IF RemoveFirstOrigin(Head(urls)) \in done
       THEN SelectNotIn(Tail(urls), done)
       ELSE <<Head(urls)>> \o SelectNotIn(Tail(urls), done)

\* ------------------------------------------------------------------------
\* Timeline content
\* ------------------------------------------------------------------------
\* inline body text of a post ('' when the post has no tweetText element)
PostText(href) == IF href = H2 THEN "" ELSE "text"

\* inline media image URLs of a post
PostImages(href) ==
  IF href = H2 THEN <<"media/a.jpg", "media/b.png">> ELSE <<>>

\* imageUrl.includes('.png')
IncludesPng(url) == url \in {"media/b.png"}

\* one rendered <article>: what the selectors of extractLinks see in it
ArticleDoms ==
  [href : Hrefs, text : {"", "text"},
   imageUrls : {<<>>, <<"media/a.jpg", "media/b.png">>},
   videoPlayer : BOOLEAN, cardPoll : BOOLEAN, cardWrapper : BOOLEAN,
   plainButton : BOOLEAN, autoSpan : BOOLEAN, showMoreSpan : BOOLEAN,
   collapsedLink : BOOLEAN]

\* structural markers an article of the modelled timeline can carry
FeedMarkers == {"none", "videoPlayer", "cardPoll", "cardWrapper",
                "showMoreSpan"}

\* the article of post href carrying marker m: each post shows its own text
\* and images
FeedArticle(href, m) ==
  [href |-> href, text |-> PostText(href), imageUrls |-> PostImages(href),
   videoPlayer |-> (m = "videoPlayer"), cardPoll |-> (m = "cardPoll"),
   cardWrapper |-> (m = "cardWrapper"), plainButton |-> FALSE,
   autoSpan |-> FALSE, showMoreSpan |-> (m = "showMoreSpan"),
   collapsedLink |-> FALSE]

FeedArticles == {FeedArticle(h, m) : h \in Hrefs, m \in FeedMarkers}

HasVideo(a) == a.videoPlayer
HasPoll(a) == a.cardPoll
HasCard(a) == a.cardWrapper
HasShowMore(a) ==
  a.plainButton \/ a.autoSpan \/ a.showMoreSpan \/ a.collapsedLink

\* variant: the card marker is not consulted
IsSimpleTweet_NoCard(a) == ~HasVideo(a) /\ ~HasPoll(a) /\ ~HasShowMore(a)

IsSimpleTweet(a) ==
  ~HasVideo(a) /\ ~HasPoll(a) /\ ~HasCard(a) /\ ~HasShowMore(a)

\* ------------------------------------------------------------------------
\* Files under output_dir
\* ------------------------------------------------------------------------
File(userId, name) == [dir |-> userId, name |-> name]

TextName(postId) == postId \o <<".txt">>
\* decimal rendering of a small positive number
NumStr(n) == <<"1", "2", "3", "4">>[n]

ImageName(postId, n, ext) == postId \o <<"-", NumStr(n), ext>>

\* imageUrl.includes('.png') ? 'png' : 'jpg'
SimpleImageExt(url) == IF IncludesPng(url) THEN ".png" ELSE ".jpg"

\* files saveSimpleContent writes for href when the first okImages
\* downloads succeed
SimpleFiles(href, text, imageUrls, okImages) ==
  LET parts == SplitSlash(href)
      userId == parts[2]
      postId == parts[4]
  IN (IF text # "" THEN {File(userId, TextName(postId))} ELSE {})
     \cup {File(userId,
                ImageName(postId, i, SimpleImageExt(imageUrls[i])))
           : i \in 1..okImages}

\* saveSimpleContent(href, content, outputDir) with the outcome of its I/O:
\* dirOk (mkdirSync / writeFileSync of the text), okImages (downloads that
\* succeed before the first failing one).  Result: [ok, files].
SaveSimpleContent(href, text, imageUrls, dirOk, okImages, fs) ==
  IF Len(SplitSlash(href)) < 4 THEN [ok |-> FALSE, files |-> fs]
  ELSE IF ~dirOk THEN [ok |-> FALSE, files |-> fs]
  ELSE [ok |-> okImages = Len(imageUrls),
        files |-> fs \cup SimpleFiles(href, text, imageUrls, okImages)]

\* ------------------------------------------------------------------------
\* Post pages (content_downloader)
\* ------------------------------------------------------------------------
\* tokens whose characters include '429'
Tokens429 == {"429"}

\* message.includes('429') for a message that quotes the string s
Includes429(s) == \E i \in 1..Len(s) : s[i] \in Tokens429

\* url.match(/https:\/\/x\.com\/([^\/]+)\/status\/(\d+)/), unanchored
MatchAt(s, k) ==
  /\ k + 6 <= Len(s)
  /\ s[k] = ORIGIN /\ s[k + 1] = SLASH
  /\ s[k + 2] \notin {SLASH, ORIGIN}
  /\ s[k + 3] = SLASH /\ s[k + 4] = "status" /\ s[k + 5] = SLASH
  /\ s[k + 6] \in DigitTokens

ExtractIds(url) ==
  IF \E k \in 1..Len(url) : MatchAt(url, k)
  THEN LET k == CHOOSE j \in 1..Len(url) :
                  MatchAt(url, j) /\ \A m \in 1..(j - 1) : ~MatchAt(url, m)
       IN [ok |-> TRUE, userId |-> <<url[k + 2]>>, postId |-> <<url[k + 6]>>]
  ELSE [ok |-> FALSE, userId |-> <<>>, postId |-> <<>>]

VideoName(postId) == postId \o <<".mp4">>
VideoInfoName(postId) == postId \o <<"-", "video-info", ".txt">>
VideoErrorName(postId) == postId \o <<"-", "video-error", ".txt">>
ScreenshotName(postId) == postId \o <<"-", "video-player", ".png">>
RateLimitedName(postId) == postId \o <<"-", "rate-limited", ".txt">>

\* file.startsWith(`${postId}-`) && (endsWith .jpg | .png | .gif)
IsImageFileOf(name, postId) ==
  /\ Len(name) > Len(postId)
  /\ SubSeq(name, 1, Len(postId) + 1) = postId \o <<"-">>
  /\ name[Len(name)] \in {".jpg", ".png", ".gif"}

\* the "already processed" test of processTweetContent
AlreadyProcessed(fs, userId, postId) ==
  LET hasTextFile == File(userId, TextName(postId)) \in fs
      hasImageFiles ==
        \E f \in fs : f.dir = userId /\ IsImageFileOf(f.name, postId)
      hasVideoFile == File(userId, VideoName(postId)) \in fs
      hasVideoInfo == File(userId, VideoInfoName(postId)) \in fs
      hasVideoError == File(userId, VideoErrorName(postId)) \in fs
      hasScreenshot == File(userId, ScreenshotName(postId)) \in fs
  IN hasTextFile \/ hasImageFiles \/ hasVideoFile \/ hasVideoInfo
       \/ hasVideoError \/ hasScreenshot

\* extension chosen by extractAndDownloadImages
DownloadImageExt(url) ==
  IF url = "media/a.jpg" THEN ".jpg"
  ELSE IF IncludesPng(url) THEN ".png"
  ELSE ".jpg"

\* media images of the document the page currently shows
PageImages(at) ==
  IF at \in {ToUrl(h) : h \in Hrefs} THEN PostImages(RemoveFirstOrigin(at))
  ELSE <<>>

\* ------------------------------------------------------------------------
\* State
\* ------------------------------------------------------------------------
VARIABLES
  pc,                  \* position of find_links
  max_id, limit, download_content,      \* arguments of find_links
  flPage,              \* the page find_links opened: none / open / closed
  pageAt,              \* document shown by the page in use
  waitTry,             \* i of the waitForSelector('article') retry loop
  waitFails,           \* failed waits so far
  uniqueLinks,         \* Set<string> in insertion order
  foundIds,
  processedTweets,     \* Set<string> of hrefs saved directly
  phase,               \* which extractLinks call runs: initial / scroll
  seen,                \* articles examined in the running extractLinks call
  previousSize, sameCountIterations, reachedBottom,
  finalLinks,          \* value returned by find_links
  files,               \* files under output_dir
  scrolls,             \* scroll cycles started
  cycleStartSize,      \* uniqueLinks.size when the running cycle started
  stableCycles,        \* consecutive finished cycles that added no link
  simpleSeen,          \* hrefs whose article was simple when first added
  saveCalls,           \* href -> number of saveSimpleContent calls
  saveOk,              \* hrefs for which saveSimpleContent returned true
  batchCalls,          \* calls of processMultipleTweets made by find_links
  bpc,                 \* position of processMultipleTweets
  tweetUrls, bi,       \* its input list and 1-based loop index
  existingPage, shouldClosePage, ownPage,
  processedCount, skippedCount, rateLimitedCount,
  navigated,           \* post URLs processTweetContent navigated to
  invoked,             \* URLs processTweetContent was called with, in order
  outcomes,            \* per handled item: how processTweetContent ended
  pacing,              \* items followed by page.waitForTimeout(sleepMs)
  item, isSimple,      \* classification step: an article and its verdict
  faults,              \* I/O failures so far
  session,             \* browser and context of the session: none / open / closed
  listeners,           \* 'response' listeners attached to the page
  observers,           \* listener calls inside waitForTimeout(waitMs): the
                       \* item each one was started under
  reloads,             \* page.reload() calls made by listeners
  responses,           \* 429 responses received so far: the reset header
                       \* and Date.now() of each
  vpc,                 \* position of downloadTwitterVideo
  tweetUrl,            \* its argument
  vBrowser,            \* the browser it launches: none / open / closed
  tempDir,             \* the directory {tweetId}-temp exists
  tempFiles,           \* names of the files in it
  videoSegments, audioSegments,         \* URLs pushed by the route handler
  segmentsJson,        \* content of {tweetId}-segments.json (<<>>: no file)
  bestVideoQuality,    \* selected key (<<>>: not selected)
  videoList, audioList,                 \* lines of the concat lists
  muxCalls,            \* ffmpeg invocations
  mp4,                 \* {tweetId}.mp4: none / partial / complete
  cleanup,             \* fs.rmSync(tempDir): none / removed / failed
  args,                \* process.argv.slice(2) of the command line
  output_dir,          \* output directory chosen by main ("": not chosen)
  gpc,                 \* position of the session provider (login.ts)
  sessionFile,         \* twitter_session.json: absent / valid / old / corrupt
  openBrowsers,        \* browsers the session provider launched, still open
  launches,            \* browsers the session provider launched so far
  browserInstance,     \* browser of the running get_browser_with_session
  globalBrowser,       \* module variable globalBrowser (0: null)
  globalContext,       \* browser of the module variable globalContext (0: null)
  providerCalls        \* calls of get_browser_with_session and login so far

discoveryVars ==
  <<pc, max_id, limit, download_content, flPage, waitTry, waitFails,
    uniqueLinks, foundIds, processedTweets, phase, seen, previousSize,
    sameCountIterations, reachedBottom, finalLinks, scrolls, cycleStartSize,
    stableCycles, simpleSeen, saveCalls, saveOk, batchCalls>>

batchVars ==
  <<bpc, tweetUrls, bi, existingPage, shouldClosePage, ownPage,
    processedCount, skippedCount, rateLimitedCount, navigated, invoked, outcomes, pacing>>

classifyVars == <<item, isSimple>>

pageVars == <<session, listeners, observers, reloads, responses>>

videoVars ==
  <<vpc, tweetUrl, vBrowser, tempDir, tempFiles, videoSegments,
    audioSegments, segmentsJson, bestVideoQuality, videoList, audioList,
    muxCalls, mp4, cleanup>>

mainVars == <<args, output_dir>>

providerVars ==
  <<gpc, sessionFile, openBrowsers, launches, browserInstance, globalBrowser,
    globalContext, providerCalls>>

vars ==
  <<discoveryVars, batchVars, classifyVars, pageVars, videoVars, mainVars, providerVars,
    pageAt, files, faults>>

\* an I/O operation that fails (failed = TRUE) uses up one failure
Fault(failed) ==
  /\ failed => faults < MaxFaults
  /\ faults' = IF failed THEN faults + 1 ELSE faults

MAX_RETRIES == 5

\* variant: the loop gives up one attempt early
LastAttempt_Early(i) == i = MAX_RETRIES - 2

\* i === MAX_RETRIES - 1
LastAttempt(i) == i = MAX_RETRIES - 1

NoItem == [href |-> <<>>]

\* variant: the membership test is dropped
IsNewLink_NoDedup(href, links) == TRUE

\* variant: only the link added last is remembered
IsNewLink_LastOnly(href, links) ==
  links = <<>> \/ href # links[Len(links)]

\* uniqueLinks.has(href) negated
IsNewLink(href, links) == href \notin Range(links)

\* variant: the limit is noticed one link late
LimitReached_OffByOne(lim, links) == lim > 0 /\ Len(links) > lim

\* variant: extractLinks never stops at the limit
LimitReached_Never(lim, links) == FALSE

\* the test after each added link
LimitReached(lim, links) == lim > 0 /\ Len(links) >= lim

\* Array.from(uniqueLinks).map(href => `https://x.com${href}`)
MapToUrls(links) == [i \in 1..Len(links) |-> ToUrl(links[i])]

\* resultLinks.slice(0, limit) when limit > 0 and the list is longer
ApplyLimit(lim, urls) ==
  IF lim > 0 /\ Len(urls) > lim THEN SubSeq(urls, 1, lim) ELSE urls

\* condition of the while loop
LoopCond == ~reachedBottom /\ (max_id = 0 \/ foundIds < max_id)

\* safeNavigate: the document shown afterwards
AfterNavigate(ok, url, at) == IF ok THEN url ELSE at

\* variant: safeNavigate lets the error of a failed navigation through
SafeNavigateReturns_OnSuccess(ok) == ok

\* safeNavigate returns to its caller (true after a navigation that
\* worked, false from its catch block after one that did not)
SafeNavigateReturns(ok) == TRUE

BatchIdle ==
  /\ bpc = "idle" /\ tweetUrls = <<>> /\ bi = 0
  /\ existingPage = FALSE /\ shouldClosePage = FALSE /\ ownPage = "none"
  /\ processedCount = 0 /\ skippedCount = 0 /\ rateLimitedCount = 0
  /\ navigated = {} /\ invoked = <<>> /\ outcomes = <<>> /\ pacing = <<>>

DiscoveryIdle ==
  /\ pc = "caller" /\ max_id = 0 /\ limit = 0 /\ download_content = FALSE
  /\ waitTry = 0 /\ waitFails = 0
  /\ uniqueLinks = <<>> /\ foundIds = 0 /\ processedTweets = {}
  /\ phase = "initial" /\ seen = 0
  /\ previousSize = 0 /\ sameCountIterations = 0 /\ reachedBottom = FALSE
  /\ finalLinks = <<>> /\ scrolls = 0 /\ cycleStartSize = 0
  /\ stableCycles = 0 /\ simpleSeen = {}
  /\ saveCalls = [h \in Hrefs |-> 0] /\ saveOk = {} /\ batchCalls = <<>>

ClassifyIdle == item = NoItem /\ isSimple = "none" /\ faults = 0

\* no listener attached, no 429 response seen
ObserverIdle ==
  listeners = 0 /\ observers = <<>> /\ reloads = 0 /\ responses = <<>>

\* downloadTwitterVideo is not running
VideoIdle ==
  /\ vpc = "idle" /\ tweetUrl = <<>> /\ vBrowser = "none"
  /\ tempDir = FALSE /\ tempFiles = {}
  /\ videoSegments = <<>> /\ audioSegments = <<>> /\ segmentsJson = <<>>
  /\ bestVideoQuality = <<>> /\ videoList = <<>> /\ audioList = <<>>
  /\ muxCalls = 0 /\ mp4 = "none" /\ cleanup = "none"

\* main is not running: find_links or one of its parts is called directly
MainIdle == args = <<>> /\ output_dir = ""

\* module state of login.ts when it is loaded: no browser, no handles
ProviderLoaded ==
  /\ gpc = "idle" /\ openBrowsers = {} /\ launches = 0
  /\ browserInstance = 0 /\ globalBrowser = 0 /\ globalContext = 0
  /\ providerCalls = 0

\* the session provider is not looked into
ProviderIdle == ProviderLoaded /\ sessionFile = "absent"

\* find_links is called on an empty output directory
Init ==
  /\ pc = "start"
  /\ max_id \in {0, MaxMaxId}
  /\ limit \in 0..MaxLimit
  /\ download_content \in BOOLEAN
  /\ flPage = "none" /\ pageAt = BLANK
  /\ waitTry = 0 /\ waitFails = 0
  /\ uniqueLinks = <<>> /\ foundIds = 0 /\ processedTweets = {}
  /\ phase = "initial" /\ seen = 0
  /\ previousSize = 0 /\ sameCountIterations = 0 /\ reachedBottom = FALSE
  /\ finalLinks = <<>> /\ files = {}
  /\ scrolls = 0 /\ cycleStartSize = 0 /\ stableCycles = 0
  /\ simpleSeen = {} /\ saveCalls = [h \in Hrefs |-> 0] /\ saveOk = {}
  /\ batchCalls = <<>>
  /\ BatchIdle
  /\ ClassifyIdle
  /\ session = "none" /\ ObserverIdle
  /\ VideoIdle
  /\ MainIdle
  /\ ProviderIdle

\* ------------------------------------------------------------------------
\* find_links
\* ------------------------------------------------------------------------
\* get_browser_with_session(), context.newPage() and
\* safeNavigate(page, initial_url)
FL_Start ==
  /\ pc = "start"
  /\ \E ok \in BOOLEAN :
       /\ pageAt' = AfterNavigate(ok, PROFILE, pageAt)
       /\ Fault(~ok)
       /\ pc' = IF SafeNavigateReturns(ok) THEN "wait" ELSE "thrown"
       /\ flPage' = IF SafeNavigateReturns(ok) THEN "open" ELSE "closed"
  /\ session' = "open"
  /\ UNCHANGED <<max_id, limit, download_content, waitTry, waitFails,
                 uniqueLinks, foundIds, processedTweets, phase, seen,
                 previousSize, sameCountIterations, reachedBottom, finalLinks,
                 scrolls, cycleStartSize, stableCycles, simpleSeen, saveCalls,
                 saveOk, batchCalls, batchVars, classifyVars, listeners,
                 observers, reloads, responses, videoVars, mainVars, providerVars, files>>

\* one page.waitForSelector('article') that succeeds: leave the retry loop
\* (its counter goes out of scope)
FL_WaitFound ==
  /\ pc = "wait"
  /\ pc' = "extract" /\ phase' = "initial" /\ seen' = 0
  /\ waitTry' = 0 /\ waitFails' = 0
  /\ UNCHANGED <<max_id, limit, download_content, flPage,
                 uniqueLinks, foundIds, processedTweets,
                 previousSize, sameCountIterations, reachedBottom, finalLinks,
                 scrolls, cycleStartSize, stableCycles, simpleSeen, saveCalls,
                 saveOk, batchCalls, batchVars, classifyVars, pageVars, videoVars, mainVars, providerVars, pageAt, files,
                 faults>>

\* a failed wait that is retried after the delay and the scroll nudge
FL_WaitRetry ==
  /\ pc = "wait"
  /\ ~LastAttempt(waitTry)
  /\ waitTry' = waitTry + 1
  /\ waitFails' = waitFails + 1
  /\ UNCHANGED <<pc, max_id, limit, download_content, flPage,
                 uniqueLinks, foundIds, processedTweets, phase, seen,
                 previousSize, sameCountIterations, reachedBottom, finalLinks,
                 scrolls, cycleStartSize, stableCycles, simpleSeen, saveCalls,
                 saveOk, batchCalls, batchVars, classifyVars, pageVars, videoVars, mainVars, providerVars, pageAt, files,
                 faults>>

\* the last failed wait: the error is rethrown to the caller through the
\* finally block, which closes the page
FL_WaitFatal ==
  /\ pc = "wait"
  /\ LastAttempt(waitTry)
  /\ waitFails' = waitFails + 1
  /\ pc' = "thrown"
  /\ flPage' = "closed"
  /\ UNCHANGED <<max_id, limit, download_content, waitTry,
                 uniqueLinks, foundIds, processedTweets, phase, seen,
                 previousSize, sameCountIterations, reachedBottom, finalLinks,
                 scrolls, cycleStartSize, stableCycles, simpleSeen, saveCalls,
                 saveOk, batchCalls, batchVars, classifyVars, pageVars, videoVars, mainVars, providerVars, pageAt, files,
                 faults>>

\* variant: only a post whose save worked is recorded
MarkProcessed_IfSaved(ok, href, done) ==
  IF ok THEN done \cup {href} ELSE done

\* processedTweets.add(item.href) after the awaited saveSimpleContent,
\* whose result is not looked at
MarkProcessed(ok, href, done) == done \cup {href}

\* extractLinks, one rendered article a: the body of the for loop over
\* linksAndContent.  dirOk and okImages are the I/O outcomes of
\* saveSimpleContent when it is called.
ExamineItem(a, dirOk, okImages) ==
  IF ~IsNewLink(a.href, uniqueLinks)
  THEN /\ seen' = seen + 1
       /\ UNCHANGED <<pc, flPage, uniqueLinks, foundIds, processedTweets,
                      finalLinks, files, simpleSeen, saveCalls, saveOk>>
  ELSE LET links == Append(uniqueLinks, a.href)
           direct == download_content /\ IsSimpleTweet(a)
           r == SaveSimpleContent(a.href, a.text, a.imageUrls,
                                  dirOk, okImages, files)
       IN /\ uniqueLinks' = links
          /\ foundIds' = foundIds + 1
          /\ simpleSeen' = IF IsSimpleTweet(a) THEN simpleSeen \cup {a.href}
                           ELSE simpleSeen
          /\ IF direct
             THEN /\ files' = r.files
                  /\ processedTweets' =
                       MarkProcessed(r.ok, a.href, processedTweets)
                  /\ saveCalls' = [saveCalls EXCEPT ![a.href] = @ + 1]
                  /\ saveOk' = IF r.ok THEN saveOk \cup {a.href} ELSE saveOk
             ELSE UNCHANGED <<files, processedTweets, saveCalls, saveOk>>
          /\ seen' = seen + 1
          /\ IF LimitReached(limit, links)
             THEN \* extractLinks returns -1
                  IF phase = "initial"
                  THEN /\ finalLinks' = MapToUrls(links)
                       /\ pc' = "returned"
                       /\ flPage' = "closed"
                  ELSE /\ pc' = "final"
                       /\ UNCHANGED <<finalLinks, flPage>>
             ELSE UNCHANGED <<pc, finalLinks, flPage>>

\* the I/O of saveSimpleContent fails for this article
SaveFails(a, dirOk, okImages) ==
  /\ IsNewLink(a.href, uniqueLinks)
  /\ download_content /\ IsSimpleTweet(a)
  /\ Len(SplitSlash(a.href)) >= 4
  /\ ~dirOk \/ okImages < Len(a.imageUrls)

FL_ExamineItem ==
  /\ pc = "extract"
  /\ seen < MaxArticles
  /\ \E a \in FeedArticles, dirOk \in BOOLEAN, okImages \in 0..2 :
       /\ okImages <= Len(a.imageUrls)
       /\ ~dirOk => okImages = 0
       /\ ~SaveFails(a, dirOk, okImages) =>
            dirOk /\ okImages = Len(a.imageUrls)
       /\ Fault(SaveFails(a, dirOk, okImages))
       /\ ExamineItem(a, dirOk, okImages)
  /\ UNCHANGED <<max_id, limit, download_content, waitTry, waitFails, phase,
                 previousSize, sameCountIterations, reachedBottom,
                 scrolls, cycleStartSize, stableCycles, batchCalls,
                 batchVars, classifyVars, pageVars, videoVars, mainVars, providerVars, pageAt>>

\* extractLinks returns uniqueLinks.size: no more articles in the list
FL_EndExtract ==
  /\ pc = "extract"
  /\ LET currentSize == Len(uniqueLinks) IN
       IF phase = "initial"
       THEN /\ previousSize' = 0
            /\ sameCountIterations' = 0
            /\ reachedBottom' = FALSE
            /\ UNCHANGED stableCycles
       ELSE /\ IF currentSize = previousSize
               THEN /\ sameCountIterations' = sameCountIterations + 1
                    /\ reachedBottom' = (sameCountIterations + 1 >= 3)
                    /\ UNCHANGED previousSize
               ELSE /\ sameCountIterations' = 0
                    /\ previousSize' = currentSize
                    /\ UNCHANGED reachedBottom
            /\ stableCycles' = IF currentSize = cycleStartSize
                               THEN stableCycles + 1 ELSE 0
  /\ pc' = "loop"
  /\ UNCHANGED <<max_id, limit, download_content, flPage, waitTry, waitFails,
                 uniqueLinks, foundIds, processedTweets, phase, seen,
                 finalLinks, scrolls, cycleStartSize, simpleSeen, saveCalls,
                 saveOk, batchCalls, batchVars, classifyVars, pageVars, videoVars, mainVars, providerVars, pageAt, files,
                 faults>>

\* the loop condition holds: scroll one viewport, wait, extract again
FL_ScrollCycle ==
  /\ pc = "loop"
  /\ LoopCond
  /\ scrolls < MaxScrolls
  /\ scrolls' = scrolls + 1
  /\ cycleStartSize' = Len(uniqueLinks)
  /\ pc' = "extract" /\ phase' = "scroll" /\ seen' = 0
  /\ UNCHANGED <<max_id, limit, download_content, flPage, waitTry, waitFails,
                 uniqueLinks, foundIds, processedTweets,
                 previousSize, sameCountIterations, reachedBottom, finalLinks,
                 stableCycles, simpleSeen, saveCalls,
                 saveOk, batchCalls, batchVars, classifyVars, pageVars, videoVars, mainVars, providerVars, pageAt, files,
                 faults>>

\* the loop condition fails
FL_LoopExit ==
  /\ pc = "loop"
  /\ ~LoopCond
  /\ pc' = "final"
  /\ UNCHANGED <<max_id, limit, download_content, flPage, waitTry, waitFails,
                 uniqueLinks, foundIds, processedTweets, phase, seen,
                 previousSize, sameCountIterations, reachedBottom, finalLinks,
                 scrolls, cycleStartSize, stableCycles, simpleSeen, saveCalls,
                 saveOk, batchCalls, batchVars, classifyVars, pageVars, videoVars, mainVars, providerVars, pageAt, files,
                 faults>>

\* after the loop: build finalLinks, then hand the links that were not
\* saved directly to processMultipleTweets, or return
FL_Finalize ==
  /\ pc = "final"
  /\ LET fl == ApplyLimit(limit, MapToUrls(uniqueLinks))
         remainingLinks == SelectNotIn(fl, processedTweets)
     IN /\ finalLinks' = fl
        \* the locals of the scroll loop are dead from here on
        /\ phase' = "initial" /\ seen' = 0 /\ previousSize' = 0
        /\ sameCountIterations' = 0 /\ reachedBottom' = FALSE
        /\ scrolls' = 0 /\ cycleStartSize' = 0 /\ stableCycles' = 0
        /\ IF download_content /\ Len(fl) > 0
           THEN IF Len(remainingLinks) > 0
                THEN /\ pc' = "batch"
                     /\ batchCalls' = Append(batchCalls, remainingLinks)
                     /\ tweetUrls' = remainingLinks
                     /\ existingPage' = TRUE
                     /\ bpc' = "setup"
                     /\ UNCHANGED flPage
                ELSE /\ pc' = "navback"
                     /\ UNCHANGED <<batchCalls, tweetUrls, existingPage, bpc,
                                    flPage>>
           ELSE /\ pc' = "returned"
                /\ flPage' = "closed"
                /\ UNCHANGED <<batchCalls, tweetUrls, existingPage, bpc>>
  /\ UNCHANGED <<max_id, limit, download_content, waitTry, waitFails,
                 uniqueLinks, foundIds, processedTweets, simpleSeen,
                 saveCalls, saveOk, bi, shouldClosePage, ownPage,
                 processedCount, skippedCount, rateLimitedCount, navigated, invoked,
                 outcomes, pacing, classifyVars, pageVars, videoVars, mainVars, providerVars, pageAt, files, faults>>

\* variant: find_links goes on without waiting for the batch
BatchAwaited_NoAwait(at) == TRUE

\* await processMultipleTweets(...): find_links resumes when it returned
BatchAwaited(at) == at = "done"

\* processMultipleTweets has returned to find_links
FL_BatchReturned ==
  /\ pc = "batch"
  /\ BatchAwaited(bpc)
  /\ pc' = "navback"
  /\ UNCHANGED <<max_id, limit, download_content, flPage, waitTry, waitFails,
                 uniqueLinks, foundIds, processedTweets, phase, seen,
                 previousSize, sameCountIterations, reachedBottom, finalLinks,
                 scrolls, cycleStartSize, stableCycles, simpleSeen, saveCalls,
                 saveOk, batchCalls, batchVars, classifyVars, pageVars, videoVars, mainVars, providerVars, pageAt, files,
                 faults>>

\* safeNavigate back to the profile, return finalLinks, finally close page
FL_NavigateBack ==
  /\ pc = "navback"
  /\ \E ok \in BOOLEAN :
       /\ pageAt' = AfterNavigate(ok, PROFILE, pageAt)
       /\ Fault(~ok)
       /\ pc' = IF SafeNavigateReturns(ok) THEN "returned" ELSE "thrown"
  /\ flPage' = "closed"
  /\ UNCHANGED <<max_id, limit, download_content, waitTry, waitFails,
                 uniqueLinks, foundIds, processedTweets, phase, seen,
                 previousSize, sameCountIterations, reachedBottom, finalLinks,
                 scrolls, cycleStartSize, stableCycles, simpleSeen, saveCalls,
                 saveOk, batchCalls, batchVars, classifyVars, pageVars, videoVars, mainVars, providerVars, files>>

\* ------------------------------------------------------------------------
\* processMultipleTweets and processTweetContent
\* ------------------------------------------------------------------------
CurUrl == tweetUrls[bi]
CurIds == ExtractIds(CurUrl)

\* variant: a URL without a match is taken as it is
InvalidUrl_Never(ids) == FALSE

\* if (!match) throw new Error(`Invalid tweet URL format: ${url}`)
InvalidUrl(ids) == ~ids.ok

\* variant: an exception of processTweetContent ends the loop
NextIndex_AbortOnThrow(outcome, i, n) ==
  IF outcome \in {"thrown429", "thrown"} THEN n + 1 ELSE i + 1

\* the loop index after an item: the try/catch inside the for loop lets
\* i++ run after every outcome
NextIndex(outcome, i, n) == i + 1

\* variant: the pacing delay follows every item
PacesAfter_Always(outcome) == TRUE

\* page.waitForTimeout(sleepMs) follows a true return (try block) and a
\* caught exception (catch block), not a false return
PacesAfter(outcome) == outcome \in {"processed", "thrown429", "thrown"}

\* variant: the catch block counts every exception as skipped
CountsAsSkipped_EveryThrow(outcome) ==
  outcome \in {"skipped", "error", "rate-limited", "thrown", "thrown429"}

\* skippedCount++: a false return (else branch of wasProcessed), or a
\* caught exception without a rate-limit signal
CountsAsSkipped(outcome) ==
  outcome \in {"skipped", "error", "rate-limited", "thrown"}

\* the batch loop has handled item bi with the given outcome of
\* processTweetContent: "processed" is a true return; "skipped", "error"
\* and "rate-limited" are false returns; "thrown429" and "thrown" are
\* exceptions caught by the loop (with and without a rate-limit signal)
Handled(outcome) ==
  /\ outcomes' = Append(outcomes, outcome)
  /\ processedCount' =
       IF outcome = "processed" THEN processedCount + 1 ELSE processedCount
  /\ skippedCount' =
       IF CountsAsSkipped(outcome)
       THEN skippedCount + 1 ELSE skippedCount
  /\ rateLimitedCount' =
       IF outcome = "thrown429" THEN rateLimitedCount + 1
       ELSE rateLimitedCount
  /\ pacing' = IF bi < Len(tweetUrls) /\ PacesAfter(outcome)
               THEN Append(pacing, bi) ELSE pacing
  /\ bi' = NextIndex(outcome, bi, Len(tweetUrls))
  /\ bpc' = "item"

\* catch block of processTweetContent for an error whose message quotes
\* the string quoted; markerOk: the marker file can be written; fs: the
\* files when the error was thrown
CaughtFrom(fs, quoted, markerOk) ==
  IF Includes429(quoted)
  THEN IF ~CurIds.ok
       THEN \* extractIds throws again inside the catch block
            Handled("thrown429") /\ files' = fs
       ELSE IF markerOk
            THEN /\ files' = fs \cup
                       {File(CurIds.userId, RateLimitedName(CurIds.postId))}
                 /\ Handled("rate-limited")
            ELSE Handled("thrown429") /\ files' = fs
  ELSE Handled("error") /\ files' = fs

\* the same with the files as they are
Caught(quoted, markerOk) == CaughtFrom(files, quoted, markerOk)

\* page set-up of processMultipleTweets
B_Setup ==
  /\ bpc = "setup"
  /\ IF existingPage
     THEN UNCHANGED <<shouldClosePage, ownPage, pageAt, session>>
     ELSE /\ session' = "open"
          /\ shouldClosePage' = TRUE
          /\ ownPage' = "open"
          /\ pageAt' = BLANK
  /\ bi' = 1
  /\ bpc' = "item"
  /\ UNCHANGED <<discoveryVars, tweetUrls, existingPage, processedCount,
                 skippedCount, rateLimitedCount, navigated, invoked,
                 outcomes, pacing, classifyVars, listeners, observers,
                 reloads, responses, videoVars, mainVars, providerVars, files, faults>>

\* processTweetContent up to the "already processed" test; a post that
\* passes it gets a 'response' listener attached to the page
PTC_Begin ==
  /\ bpc = "item"
  /\ bi <= Len(tweetUrls)
  /\ invoked' = Append(invoked, CurUrl)
  /\ IF InvalidUrl(CurIds)
     THEN Caught(CurUrl, TRUE) /\ UNCHANGED listeners
     ELSE IF AlreadyProcessed(files, CurIds.userId, CurIds.postId)
          THEN Handled("skipped") /\ UNCHANGED <<files, listeners>>
          ELSE /\ listeners' = listeners + 1
               /\ bpc' = "ptc_nav"
               /\ UNCHANGED <<bi, processedCount, skippedCount,
                              rateLimitedCount, outcomes, pacing, files>>
  /\ UNCHANGED <<discoveryVars, tweetUrls, existingPage, shouldClosePage,
                 ownPage, navigated, classifyVars, session, observers,
                 reloads, responses, videoVars, mainVars, providerVars, pageAt, faults>>

\* safeNavigate(page, tweetUrl)
PTC_Navigate ==
  /\ bpc = "ptc_nav"
  /\ \E ok \in BOOLEAN :
       /\ pageAt' = AfterNavigate(ok, CurUrl, pageAt)
       /\ Fault(~ok)
  /\ navigated' = navigated \cup {CurUrl}
  /\ bpc' = "ptc_text"
  /\ UNCHANGED <<discoveryVars, tweetUrls, bi, existingPage, shouldClosePage,
                 ownPage, processedCount, skippedCount, rateLimitedCount,
                 invoked, outcomes, pacing, classifyVars, pageVars, videoVars, mainVars, providerVars, files>>

\* variant: nothing is written when the extraction failed
WritesTextFile_IfFound(found) == found

\* extractAndSaveText writes outputPath at the end of its try block (the
\* formatted content) and in its catch block (the error message)
WritesTextFile(found) == TRUE

\* extractAndSaveText: found says whether the wait for the post element
\* and the extraction worked; the text file is written in both cases
\* (content or error message); when the file cannot be written the error
\* reaches processTweetContent
PTC_Text ==
  /\ bpc = "ptc_text"
  /\ \E found \in BOOLEAN, writeOk \in BOOLEAN, markerOk \in BOOLEAN :
       /\ writeOk => markerOk
       /\ Fault(~found \/ ~writeOk)
       /\ IF ~WritesTextFile(found)
          THEN /\ bpc' = "ptc_images"
               /\ UNCHANGED <<bi, processedCount, skippedCount,
                              rateLimitedCount, outcomes, pacing, files>>
          ELSE IF writeOk
          THEN /\ files' = files \cup
                     {File(CurIds.userId, TextName(CurIds.postId))}
               /\ bpc' = "ptc_images"
               /\ UNCHANGED <<bi, processedCount, skippedCount,
                              rateLimitedCount, outcomes, pacing>>
          ELSE Caught(CurIds.userId \o CurIds.postId, markerOk)
  /\ UNCHANGED <<discoveryVars, tweetUrls, existingPage, shouldClosePage,
                 ownPage, navigated, invoked, classifyVars, pageVars, videoVars, mainVars, providerVars, pageAt>>

\* extractAndDownloadImages: the first k downloads succeed; a failed
\* download may leave the file it had opened
PTC_Images ==
  /\ bpc = "ptc_images"
  /\ LET imgs == PageImages(pageAt)
         name(i) == ImageName(CurIds.postId, i, DownloadImageExt(imgs[i]))
     IN \E found \in BOOLEAN, k \in 0..2, partial \in BOOLEAN :
          /\ k <= Len(imgs)
          /\ ~found => k = 0 /\ ~partial
          /\ k = Len(imgs) => ~partial
          /\ Fault(~found \/ k < Len(imgs))
          /\ files' =
               IF ~found THEN files
               ELSE files
                    \cup {File(CurIds.userId, name(i)) : i \in 1..k}
                    \cup (IF partial /\ k < Len(imgs)
                          THEN {File(CurIds.userId, name(k + 1))} ELSE {})
  /\ bpc' = "ptc_video"
  /\ UNCHANGED <<discoveryVars, tweetUrls, bi, existingPage, shouldClosePage,
                 ownPage, processedCount, skippedCount, rateLimitedCount,
                 navigated, invoked, outcomes, pacing, classifyVars, pageVars, videoVars, mainVars, providerVars, pageAt>>

\* the document shown has a div[data-testid="videoPlayer"] in its post
PageHasVideo(at) == at = ToUrl(H1)

\* variant: the info file is tied to the screenshot
InfoAfterScreenshot_OnlyIfShot(shotOk) == shotOk

\* the screenshot has its own try/catch: the info file is written after it
\* whether or not it worked
InfoAfterScreenshot(shotOk) == TRUE

\* extractAndDownloadVideos, then processTweetContent returns true.
\* waitOk: the wait for the post element and the look-up of the player
\* work; shotOk: the screenshot is taken; infoOk, errOk: the info and the
\* error file can be written
PTC_Video ==
  /\ bpc = "ptc_video"
  /\ LET info == File(CurIds.userId, VideoInfoName(CurIds.postId))
         shot == File(CurIds.userId, ScreenshotName(CurIds.postId))
         err == File(CurIds.userId, VideoErrorName(CurIds.postId))
         hasVideo == PageHasVideo(pageAt)
     IN \E waitOk \in BOOLEAN, shotOk \in BOOLEAN, infoOk \in BOOLEAN,
           errOk \in BOOLEAN, markerOk \in BOOLEAN :
          LET detected == waitOk /\ hasVideo
              shotDone == detected /\ shotOk
              infoTried == detected /\ InfoAfterScreenshot(shotOk)
              infoDone == infoTried /\ infoOk
              failed == ~waitOk \/ (infoTried /\ ~infoOk)
              errDone == failed /\ errOk
              written == (IF shotDone THEN {shot} ELSE {})
                           \cup (IF infoDone THEN {info} ELSE {})
                           \cup (IF errDone THEN {err} ELSE {})
          IN /\ ~detected => shotOk /\ infoOk
             /\ ~failed => errOk
             /\ (failed /\ ~errOk) \/ markerOk
             /\ Fault(~waitOk \/ ~shotOk \/ ~infoOk \/ ~errOk)
             /\ IF failed /\ ~errOk
                THEN \* the error of the last write leaves the function;
                     \* the screenshot, if taken, stays
                     CaughtFrom(files \cup written,
                                CurIds.userId \o CurIds.postId, markerOk)
                ELSE /\ files' = files \cup written
                     /\ Handled("processed")
  /\ UNCHANGED <<discoveryVars, tweetUrls, existingPage, shouldClosePage,
                 ownPage, navigated, invoked, classifyVars, pageVars,
                 videoVars, mainVars, providerVars, pageAt>>

\* variant: the finally block closes without asking
PageAfterBatch_Always(should, pg) == "closed"

\* finally block of processMultipleTweets: if (shouldClosePage && page)
PageAfterBatch(should, pg) == IF should THEN "closed" ELSE pg

\* end of the loop: summary, then the finally block
B_Summary ==
  /\ bpc = "item"
  /\ bi > Len(tweetUrls)
  /\ ownPage' = PageAfterBatch(shouldClosePage, ownPage)
  /\ bpc' = "done"
  /\ UNCHANGED <<discoveryVars, tweetUrls, bi, existingPage, shouldClosePage,
                 processedCount, skippedCount, rateLimitedCount, navigated, invoked,
                 outcomes, pacing, classifyVars, pageVars, videoVars, mainVars, providerVars, pageAt, files,
                 faults>>

\* ------------------------------------------------------------------------
\* Rate-limit observer: the 'response' listener of processTweetContent.
\* page.on calls the async listener without awaiting it, so a listener
\* that waits is a task of its own next to the extraction.
\* ------------------------------------------------------------------------
\* values of the x-rate-limit-reset header, in seconds ("": no header)
ResetHeaders == {"", "1", "2", "3"}

\* parseInt(headers['x-rate-limit-reset'])
ParseInt(h) == IF h = "1" THEN 1 ELSE IF h = "2" THEN 2 ELSE 3

\* Date.now() when the response is handled, in milliseconds
NowValues == {2000}

\* resetTimestamp - Date.now()
WaitMs(h, now) == ParseInt(h) * 1000 - now

\* variant: the listener waits after every 429 response
Waits_Always(h, now) == TRUE

\* if (headers['x-rate-limit-reset']) ... if (waitMs > 0)
Waits(h, now) == h # "" /\ WaitMs(h, now) > 0

\* the page processMultipleTweets works on is open
PageOpen == IF existingPage THEN flPage = "open" ELSE ownPage = "open"

\* the sequence s without its k-th element
RemoveAt(s, k) == SubSeq(s, 1, k - 1) \o SubSeq(s, k + 1, Len(s))

\* a response with status 429 reaches the page: every attached listener
\* runs up to its first await
ObsResponse ==
  /\ Len(responses) < MaxResponses
  /\ listeners > 0
  /\ PageOpen
  /\ \E h \in ResetHeaders, now \in NowValues :
       /\ responses' = Append(responses, [reset |-> h, now |-> now])
       /\ observers' =
            IF Waits(h, now)
            THEN observers \o [k \in 1..listeners |-> bi]
            ELSE observers
  /\ UNCHANGED <<discoveryVars, batchVars, classifyVars, session, listeners,
                 reloads, videoVars, mainVars, providerVars, pageAt, files, faults>>

\* waitForTimeout(waitMs) of one listener is over: it reloads the page and
\* finishes (on a closed page the wait is rejected and nothing is reloaded)
ObsWake ==
  /\ observers # <<>>
  /\ \E k \in 1..Len(observers) : observers' = RemoveAt(observers, k)
  /\ reloads' = IF PageOpen THEN reloads + 1 ELSE reloads
  /\ UNCHANGED <<discoveryVars, batchVars, classifyVars, session, listeners,
                 responses, videoVars, mainVars, providerVars, pageAt, files, faults>>

\* ------------------------------------------------------------------------
\* Video reconstructor: downloadTwitterVideo and groupSegmentsByQuality
\* ------------------------------------------------------------------------
\* request URLs: the tokens "/vid/" and "/aud/" are path parts, a token
\* ending in ".m4s" is a file name, "x" is the letter between two runs of
\* digits
V720a == <<"/vid/", "1280", "x", "720", "a.m4s">>
V720b == <<"/vid/", "1280", "x", "720", "b.m4s">>
V360a == <<"/vid/", "640", "x", "360", "a.m4s">>
VPlain == <<"/vid/", "a.m4s">>
A128a == <<"/aud/", "128000", "a.m4s">>
Image == <<"/img/", "p.jpg">>

\* requests the page can make while the video plays
Requests == {V720a, V720b, V360a, VPlain, A128a, Image}

\* runs of decimal digits and Number() of them
DigitRuns == {"1280", "720", "640", "360", "128000"}

NumberOf(t) ==
  IF t = "1280" THEN 1280 ELSE IF t = "720" THEN 720
  ELSE IF t = "640" THEN 640 ELSE IF t = "360" THEN 360 ELSE 128000

\* url.includes(part) for the parts the route handler asks about
IncludesM4s(url) == \E i \in 1..Len(url) : url[i] \in {"a.m4s", "b.m4s"}
IncludesVid(url) == \E i \in 1..Len(url) : url[i] = "/vid/"
IncludesAud(url) == \E i \in 1..Len(url) : url[i] = "/aud/"

\* the route handler applied to the requests in arrival order
RECURSIVE Captured(_, _)
Captured(reqs, kind) ==
  IF reqs = <<>> THEN <<>>
  ELSE LET url == Head(reqs)
           hit == /\ IncludesM4s(url)
                  /\ IF kind = "video" THEN IncludesVid(url)
                     ELSE ~IncludesVid(url) /\ IncludesAud(url)
       IN (IF hit THEN <<url>> ELSE <<>>) \o Captured(Tail(reqs), kind)

\* tweetUrl.match(/status\/(\d+)/), unanchored
StatusAt(s, k) ==
  k + 2 <= Len(s) /\ s[k] = "status" /\ s[k + 1] = SLASH
    /\ s[k + 2] \in DigitTokens

TweetIdOf(url) ==
  IF \E k \in 1..Len(url) : StatusAt(url, k)
  THEN LET k == CHOOSE j \in 1..Len(url) :
                  StatusAt(url, j) /\ \A m \in 1..(j - 1) : ~StatusAt(url, m)
       IN <<url[k + 2]>>
  ELSE <<>>

\* url.match(/(\d+)x(\d+)/)
ResAt(s, k) ==
  k + 2 <= Len(s) /\ s[k] \in DigitRuns /\ s[k + 1] = "x"
    /\ s[k + 2] \in DigitRuns

\* url.match(/(\d+)000/): a run of digits that ends in 000
BitrateAt(s, k) == k <= Len(s) /\ s[k] \in {"128000"}

\* `${bitrateMatch[1]}kbps`
Kbps(t) == IF t = "128000" THEN "128kbps" ELSE "0kbps"

\* the key groupSegmentsByQuality files a URL under
QualityOf(url) ==
  IF \E k \in 1..Len(url) : ResAt(url, k)
  THEN LET k == CHOOSE j \in 1..Len(url) :
                  ResAt(url, j) /\ \A m \in 1..(j - 1) : ~ResAt(url, m)
       IN SubSeq(url, k, k + 2)
  ELSE IF \E k \in 1..Len(url) : BitrateAt(url, k)
       THEN LET k == CHOOSE j \in 1..Len(url) :
                       BitrateAt(url, j)
                         /\ \A m \in 1..(j - 1) : ~BitrateAt(url, m)
            IN <<Kbps(url[k])>>
       ELSE <<"unknown">>

\* variant: a URL replaces the group it belongs to
AddToGroups_Overwrite(groups, url) ==
  LET q == QualityOf(url) IN
    IF \E i \in 1..Len(groups) : groups[i].key = q
    THEN [i \in 1..Len(groups) |->
            IF groups[i].key = q THEN [key |-> q, urls |-> <<url>>]
            ELSE groups[i]]
    ELSE Append(groups, [key |-> q, urls |-> <<url>>])

\* groups[quality].push(url), creating the group on first use; a group
\* list keeps the keys in insertion order, as Object.keys reports them
AddToGroups(groups, url) ==
  LET q == QualityOf(url) IN
    IF \E i \in 1..Len(groups) : groups[i].key = q
    THEN [i \in 1..Len(groups) |->
            IF groups[i].key = q
            THEN [key |-> q, urls |-> Append(groups[i].urls, url)]
            ELSE groups[i]]
    ELSE Append(groups, [key |-> q, urls |-> <<url>>])

RECURSIVE GroupFrom(_, _)
GroupFrom(groups, segments) ==
  IF segments = <<>> THEN groups
  ELSE GroupFrom(AddToGroups(groups, Head(segments)), Tail(segments))

groupSegmentsByQuality(segments) == GroupFrom(<<>>, segments)

\* Object.keys(groups)
KeysOf(groups) == [i \in 1..Len(groups) |-> groups[i].key]

\* groups[key]
GroupOf(groups, key) ==
  LET i == CHOOSE j \in 1..Len(groups) : groups[j].key = key
  IN groups[i].urls

\* key.split('x')
SplitX(key) == SelectSeq(key, LAMBDA t : t # "x")

\* resA[0] * resA[1] is NaN: a part is missing or is not a number
AreaIsNaN(key) ==
  LET parts == SplitX(key) IN
    Len(parts) < 2 \/ parts[1] \notin DigitRuns \/ parts[2] \notin DigitRuns

AreaOf(key) ==
  LET parts == SplitX(key) IN NumberOf(parts[1]) * NumberOf(parts[2])

\* variant: the comparator orders by ascending area
Compare_Ascending(a, b) ==
  IF AreaIsNaN(a) \/ AreaIsNaN(b) THEN 0 ELSE AreaOf(a) - AreaOf(b)

\* the comparator given to sort: areaB - areaA, a NaN result counting as +0
Compare(a, b) ==
  IF AreaIsNaN(a) \/ AreaIsNaN(b) THEN 0 ELSE AreaOf(b) - AreaOf(a)

\* k put into a sorted list behind everything that does not sort after it
InsertSorted(sorted, k) ==
  IF \E i \in 1..Len(sorted) : Compare(k, sorted[i]) < 0
  THEN LET i == CHOOSE j \in 1..Len(sorted) :
                  /\ Compare(k, sorted[j]) < 0
                  /\ \A m \in 1..(j - 1) : Compare(k, sorted[m]) >= 0
       IN SubSeq(sorted, 1, i - 1) \o <<k>> \o SubSeq(sorted, i, Len(sorted))
  ELSE Append(sorted, k)

RECURSIVE SortFrom(_, _)
SortFrom(sorted, keys) ==
  IF keys = <<>> THEN sorted
  ELSE SortFrom(InsertSorted(sorted, Head(keys)), Tail(keys))

\* the comparator is consistent on these keys: no NaN area, or all equal
Consistent(keys) ==
  \/ \A i \in 1..Len(keys) : ~AreaIsNaN(keys[i])
  \/ \A i, j \in 1..Len(keys) : Compare(keys[i], keys[j]) = 0

\* Array.prototype.sort(comparator): the stable order for a consistent
\* comparator, any order of the keys (implementation-defined) otherwise
SortResults(keys) ==
  IF Consistent(keys) THEN {SortFrom(<<>>, keys)}
  ELSE {p \in [1..Len(keys) -> Range(keys)] : Range(p) = Range(keys)}

\* i.toString().padStart(5, '0') for i < 100, character by character
DigitChar(n) == <<"0", "1", "2", "3", "4", "5", "6", "7", "8", "9">>[n + 1]
Pad5(i) == <<"0", "0", "0", DigitChar(i \div 10), DigitChar(i % 10)>>

\* `video_${...}.m4s` and `audio_${...}.m4s` for the 0-based index i
SegName(kind, i) == <<kind>> \o Pad5(i) \o <<".m4s">>

\* position of a character in the order used by Array.prototype.sort()
CharOrd(c) ==
  IF c \in {"0", "1", "2", "3", "4", "5", "6", "7", "8", "9"}
  THEN CHOOSE n \in 0..9 : DigitChar(n) = c
  ELSE 10

\* a sorts before b as a string
LexLess(a, b) ==
  \/ Len(a) < Len(b) /\ a = SubSeq(b, 1, Len(a))
  \/ \E i \in 1..Len(a) :
       /\ i <= Len(b)
       /\ SubSeq(a, 1, i - 1) = SubSeq(b, 1, i - 1)
       /\ CharOrd(a[i]) < CharOrd(b[i])

\* names.sort()
RECURSIVE SortNames(_)
SortNames(names) ==
  IF names = {} THEN <<>>
  ELSE LET m == CHOOSE x \in names :
                  \A y \in names \ {x} : LexLess(x, y)
       IN <<m>> \o SortNames(names \ {m})

\* 'video_list.txt' and 'audio_list.txt'
VideoListName == <<"video_", "list.txt">>
AudioListName == <<"audio_", "list.txt">>

\* f.startsWith(prefix) over the files of the scratch directory
StartingWith(names, prefix) == {f \in names : f[1] = prefix}

\* request logs of one capture window
RequestLogs == UNION {[1..n -> Requests] : n \in 0..MaxRequests}

\* URLs downloadTwitterVideo can be called with
VideoUrls == {ToUrl(H1), ToUrl(H2), ToUrl(HShort)}

nonVideoVars ==
  <<discoveryVars, batchVars, classifyVars, pageVars, mainVars,
    providerVars, pageAt, files>>

\* up to page.route: tweet id, browser launch, scratch directory (made
\* only when it does not exist yet)
V_Start ==
  /\ vpc = "start"
  /\ IF TweetIdOf(tweetUrl) = <<>>
     THEN vpc' = "returned" /\ UNCHANGED <<vBrowser, tempDir, faults>>
     ELSE IF tempDir
     THEN vBrowser' = "open" /\ vpc' = "goto" /\ UNCHANGED <<tempDir, faults>>
     ELSE \E ok \in BOOLEAN :
            /\ Fault(~ok)
            /\ vBrowser' = "open"
            /\ tempDir' = ok
            /\ vpc' = IF ok THEN "goto" ELSE "thrown"
  /\ UNCHANGED <<nonVideoVars, tweetUrl, tempFiles, videoSegments,
                 audioSegments, segmentsJson, bestVideoQuality, videoList,
                 audioList, muxCalls, mp4, cleanup>>

\* page.goto(tweetUrl)
V_Goto ==
  /\ vpc = "goto"
  /\ \E ok \in BOOLEAN :
       Fault(~ok) /\ vpc' = IF ok THEN "player" ELSE "finally"
  /\ UNCHANGED <<nonVideoVars, tweetUrl, vBrowser, tempDir, tempFiles,
                 videoSegments, audioSegments, segmentsJson,
                 bestVideoQuality, videoList, audioList, muxCalls, mp4,
                 cleanup>>

\* page.waitForSelector(videoPlayer) and videoPlayer.click(): a wait for a
\* visible element returns the element or throws
V_Player ==
  /\ vpc = "player"
  /\ \E ok \in BOOLEAN :
       Fault(~ok) /\ vpc' = IF ok THEN "capture" ELSE "finally"
  /\ UNCHANGED <<nonVideoVars, tweetUrl, vBrowser, tempDir, tempFiles,
                 videoSegments, audioSegments, segmentsJson,
                 bestVideoQuality, videoList, audioList, muxCalls, mp4,
                 cleanup>>

\* variant: the reconstruction is started whatever was captured
StartsReconstruction_Always(segments) == TRUE

\* if (videoSegments.length > 0)
StartsReconstruction(segments) == Len(segments) > 0

\* the capture window: the route handler has seen the requests reqs
V_Capture ==
  /\ vpc = "capture"
  /\ \E reqs \in RequestLogs :
       /\ videoSegments' = Captured(reqs, "video")
       /\ audioSegments' = Captured(reqs, "audio")
       /\ vpc' = IF StartsReconstruction(Captured(reqs, "video"))
                 THEN "record" ELSE "finally"
  /\ UNCHANGED <<nonVideoVars, tweetUrl, vBrowser, tempDir, tempFiles,
                 segmentsJson, bestVideoQuality, videoList, audioList,
                 muxCalls, mp4, cleanup, faults>>

\* writeFileSync of {tweetId}-segments.json
V_Record ==
  /\ vpc = "record"
  /\ \E ok \in BOOLEAN :
       /\ Fault(~ok)
       /\ segmentsJson' =
            IF ok THEN <<videoSegments, audioSegments>> ELSE <<>>
       /\ vpc' = IF ok THEN "select" ELSE "finally"
  /\ UNCHANGED <<nonVideoVars, tweetUrl, vBrowser, tempDir, tempFiles,
                 videoSegments, audioSegments, bestVideoQuality, videoList,
                 audioList, muxCalls, mp4, cleanup>>

\* Object.keys(videoGroups).sort(...)[0], undefined when there is no key:
\* if (bestVideoQuality && videoGroups[bestVideoQuality])
V_Select ==
  /\ vpc = "select"
  /\ LET keys == KeysOf(groupSegmentsByQuality(videoSegments)) IN
       IF keys = <<>>
       THEN vpc' = "finally" /\ UNCHANGED bestVideoQuality
       ELSE /\ \E order \in SortResults(keys) :
                 bestVideoQuality' = order[1]
            /\ vpc' = "download"
  /\ UNCHANGED <<nonVideoVars, tweetUrl, vBrowser, tempDir, tempFiles,
                 videoSegments, audioSegments, segmentsJson, videoList,
                 audioList, muxCalls, mp4, cleanup, faults>>

\* the names the selected video segments and the segments of the first
\* audio group are downloaded to, in download order
DownloadNames ==
  LET vs == GroupOf(groupSegmentsByQuality(videoSegments), bestVideoQuality)
      ags == groupSegmentsByQuality(audioSegments)
      as == IF ags = <<>> THEN <<>> ELSE ags[1].urls
  IN [i \in 1..Len(vs) |-> SegName("video_", i - 1)]
       \o [i \in 1..Len(as) |-> SegName("audio_", i - 1)]

\* the two download loops: the first k downloads succeed; the failing one
\* may leave the file it had opened; a file of the same name is replaced
V_Download ==
  /\ vpc = "download"
  /\ LET names == DownloadNames IN
       \E k \in 0..Len(names), partial \in BOOLEAN :
         /\ k = Len(names) => ~partial
         /\ Fault(k < Len(names))
         /\ tempFiles' = tempFiles \cup {names[i] : i \in 1..k}
                           \cup (IF partial THEN {names[k + 1]} ELSE {})
         /\ vpc' = IF k = Len(names) THEN "manifest" ELSE "finally"
  /\ UNCHANGED <<nonVideoVars, tweetUrl, vBrowser, tempDir, videoSegments,
                 audioSegments, segmentsJson, bestVideoQuality, videoList,
                 audioList, muxCalls, mp4, cleanup>>

\* the concat lists: video_list.txt, and audio_list.txt when there are
\* audio files; w is the number of lists written before a write fails
V_Manifest ==
  /\ vpc = "manifest"
  /\ LET videoFiles == StartingWith(tempFiles, "video_")
         audioFiles == StartingWith(tempFiles, "audio_")
         needed == IF audioFiles # {} THEN 2 ELSE 1
     IN \E w \in 0..2 :
          /\ w <= needed
          /\ Fault(w < needed)
          /\ videoList' = IF w >= 1 THEN SortNames(videoFiles) ELSE <<>>
          /\ audioList' = IF w >= 2 THEN SortNames(audioFiles) ELSE <<>>
          /\ tempFiles' = tempFiles
               \cup (IF w >= 1 THEN {VideoListName} ELSE {})
               \cup (IF w >= 2 THEN {AudioListName} ELSE {})
          /\ vpc' = IF w = needed THEN "mux" ELSE "finally"
  /\ UNCHANGED <<nonVideoVars, tweetUrl, vBrowser, tempDir, videoSegments,
                 audioSegments, segmentsJson, bestVideoQuality, muxCalls,
                 mp4, cleanup>>

\* what ffmpeg can leave at outputPath: the whole file when it exits with
\* status 0; nothing or the part it had written when it fails
MuxResults == {"complete", "partial", "none"}

\* execSync(ffmpegCmd) inside its own try/catch, which only logs
V_Mux ==
  /\ vpc = "mux"
  /\ \E r \in MuxResults :
       /\ Fault(r # "complete")
       /\ mp4' = r
  /\ muxCalls' = muxCalls + 1
  /\ vpc' = "finally"
  /\ UNCHANGED <<nonVideoVars, tweetUrl, vBrowser, tempDir, tempFiles,
                 videoSegments, audioSegments, segmentsJson,
                 bestVideoQuality, videoList, audioList, cleanup>>

\* variant: the browser is left as it is
BrowserAfterFinally_Leak(b) == b

\* await browser.close() in the finally block
BrowserAfterFinally(b) == "closed"

\* finally block: close the browser, then rmSync the scratch directory
\* inside a try/catch that only logs
V_Finally ==
  /\ vpc = "finally"
  /\ vBrowser' = BrowserAfterFinally(vBrowser)
  /\ \E ok \in BOOLEAN :
       /\ Fault(~ok)
       /\ cleanup' = IF ok THEN "removed" ELSE "failed"
       /\ tempDir' = IF ok THEN FALSE ELSE tempDir
       /\ tempFiles' = IF ok THEN {} ELSE tempFiles
  /\ vpc' = "returned"
  /\ UNCHANGED <<nonVideoVars, tweetUrl, videoSegments, audioSegments,
                 segmentsJson, bestVideoQuality, videoList, audioList,
                 muxCalls, mp4>>

VideoNext ==
  \/ V_Start
  \/ V_Goto
  \/ V_Player
  \/ V_Capture
  \/ V_Record
  \/ V_Select
  \/ V_Download
  \/ V_Manifest
  \/ V_Mux
  \/ V_Finally

\* ------------------------------------------------------------------------
\* Classification of one article (callback of page.$$eval)
\* ------------------------------------------------------------------------
Classify ==
  /\ item # NoItem
  /\ isSimple = "none"
  /\ isSimple' = IF IsSimpleTweet(item) THEN "simple" ELSE "complex"
  /\ UNCHANGED <<discoveryVars, batchVars, item, pageVars, videoVars, mainVars, providerVars, pageAt,
                 files, faults>>

\* ------------------------------------------------------------------------
\* Command line: main of test_twitter.ts
\* ------------------------------------------------------------------------
\* values of the five positional arguments; "" is an empty argument
ArgValues ==
  <<{"", "jack"}, {"", "0", "100"}, {"", "0", "50"},
    {"", "true", "false"}, {"", "./twitter_data"}>>

\* command lines: the first n positions given
ArgLists ==
  LET all == UNION {ArgValues[i] : i \in 1..5} IN
    UNION {{a \in [1..n -> all] : \A i \in 1..n : a[i] \in ArgValues[i]}
             : n \in 0..5}

\* args[i] is undefined or the empty string: a falsy operand of ?: and ||
Omitted(a, i) == i > Len(a) \/ a[i] = ""

\* parseInt of a decimal numeral
ParseIntArg(t) ==
  CASE t = "0" -> 0
    [] t = "50" -> 50
    [] t = "100" -> 100

\* main: the configuration taken from the command line, up to the call of
\* find_links(url, max_id, limit, download_content, output_dir)
Main ==
  /\ pc = "caller"
  /\ output_dir = ""
  /\ max_id' = IF Omitted(args, 2) THEN 5 ELSE ParseIntArg(args[2])
  /\ limit' = IF Omitted(args, 3) THEN 10 ELSE ParseIntArg(args[3])
  /\ download_content' = ~(Len(args) >= 4 /\ args[4] = "false")
  /\ output_dir' = IF Omitted(args, 5) THEN "./output" ELSE args[5]
  /\ pc' = "start"
  /\ UNCHANGED <<flPage, waitTry, waitFails, uniqueLinks, foundIds,
                 processedTweets, phase, seen, previousSize,
                 sameCountIterations, reachedBottom, finalLinks, scrolls,
                 cycleStartSize, stableCycles, simpleSeen, saveCalls, saveOk,
                 batchCalls, batchVars, classifyVars, pageVars, videoVars,
                 providerVars, args, pageAt, files, faults>>

\* ------------------------------------------------------------------------
\* Session provider (login.ts)
\* ------------------------------------------------------------------------
nonProviderVars ==
  <<discoveryVars, batchVars, classifyVars, pageVars, videoVars, mainVars,
    pageAt, files>>

\* states of twitter_session.json: "old" is 7 days old or more, "corrupt"
\* is recent and not parseable as JSON
SessionFiles == {"absent", "valid", "old", "corrupt"}

\* check_login(): the file exists and is less than 7 days old
check_login(f) == f \in {"valid", "corrupt"}

\* globalBrowser && globalContext
HasGlobalSession == globalBrowser # 0 /\ globalContext # 0

\* get_browser_with_session up to the test of hasSession: return the
\* global session, or launch a browser and store it in globalBrowser
P_GetBrowser ==
  /\ gpc = "idle"
  /\ providerCalls < MaxCalls
  /\ providerCalls' = providerCalls + 1
  /\ IF HasGlobalSession
     THEN UNCHANGED <<gpc, openBrowsers, launches, browserInstance,
                      globalBrowser>>
     ELSE /\ launches' = launches + 1
          /\ openBrowsers' = openBrowsers \cup {launches + 1}
          /\ browserInstance' = launches + 1
          /\ globalBrowser' = launches + 1
          /\ gpc' = IF check_login(sessionFile) THEN "load" ELSE "nosession"
  /\ UNCHANGED <<nonProviderVars, sessionFile, globalContext, faults>>

\* the hasSession branch: parse the file, make the context, look whether
\* the site still takes the session; if not, the file is deleted and the
\* context closed (the browser stays open) before login(); the catch block
\* closes the browser and logs in again
P_LoadSession ==
  /\ gpc = "load"
  /\ IF sessionFile = "corrupt"
     THEN /\ sessionFile' = "absent"
          /\ openBrowsers' = openBrowsers \ {browserInstance}
          /\ globalBrowser' = 0
          /\ globalContext' = 0
          /\ gpc' = "login"
     ELSE \E isStillLoggedIn \in BOOLEAN :
            IF isStillLoggedIn
            THEN /\ globalContext' = browserInstance
                 /\ gpc' = "idle"
                 /\ UNCHANGED <<sessionFile, openBrowsers, globalBrowser>>
            ELSE /\ sessionFile' = "absent"
                 /\ globalContext' = 0
                 /\ gpc' = "login"
                 /\ UNCHANGED <<openBrowsers, globalBrowser>>
  /\ UNCHANGED <<nonProviderVars, launches, browserInstance, providerCalls,
                 faults>>

\* the branch without a session: close the browser just launched and log in
P_NoSession ==
  /\ gpc = "nosession"
  /\ openBrowsers' = openBrowsers \ {browserInstance}
  /\ globalBrowser' = 0
  /\ gpc' = "login"
  /\ UNCHANGED <<nonProviderVars, sessionFile, launches, browserInstance,
                 globalContext, providerCalls, faults>>

\* login() called by the program
P_LoginCall ==
  /\ gpc = "idle"
  /\ providerCalls < MaxCalls
  /\ providerCalls' = providerCalls + 1
  /\ gpc' = "login"
  /\ UNCHANGED <<nonProviderVars, sessionFile, openBrowsers, launches,
                 browserInstance, globalBrowser, globalContext, faults>>

\* login(): return the global session, or launch a browser, make a context
\* from the session file if there is one, store both handles, wait for the
\* user to be logged in (or give up, closing the browser), save the session
P_Login ==
  /\ gpc = "login"
  /\ gpc' = "idle"
  /\ IF HasGlobalSession
     THEN UNCHANGED <<sessionFile, openBrowsers, launches, globalBrowser,
                      globalContext, faults>>
     ELSE /\ launches' = launches + 1
          /\ IF sessionFile = "corrupt"
             THEN /\ openBrowsers' = openBrowsers \cup {launches + 1}
                  /\ UNCHANGED <<sessionFile, globalBrowser, globalContext,
                                 faults>>
             ELSE \E loggedIn, saved \in BOOLEAN :
                    /\ Fault(loggedIn /\ ~saved)
                    /\ ~loggedIn => saved
                    /\ openBrowsers' = IF loggedIn
                                       THEN openBrowsers \cup {launches + 1}
                                       ELSE openBrowsers
                    /\ globalBrowser' = IF loggedIn THEN launches + 1 ELSE 0
                    /\ globalContext' = IF loggedIn THEN launches + 1 ELSE 0
                    /\ sessionFile' = IF loggedIn /\ saved THEN "valid"
                                      ELSE sessionFile
  /\ UNCHANGED <<nonProviderVars, browserInstance, providerCalls>>

\* the session file reaches the age of 7 days between two calls
P_FileAges ==
  /\ gpc = "idle"
  /\ sessionFile = "valid"
  /\ sessionFile' = "old"
  /\ UNCHANGED <<nonProviderVars, gpc, openBrowsers, launches,
                 browserInstance, globalBrowser, globalContext,
                 providerCalls, faults>>

ProviderNext ==
  \/ P_GetBrowser
  \/ P_LoadSession
  \/ P_NoSession
  \/ P_LoginCall
  \/ P_Login
  \/ P_FileAges

\* ------------------------------------------------------------------------
\* Specifications
\* ------------------------------------------------------------------------
BatchNext ==
  \/ B_Setup
  \/ PTC_Begin
  \/ PTC_Navigate
  \/ PTC_Text
  \/ PTC_Images
  \/ PTC_Video
  \/ B_Summary

Next ==
  \/ FL_Start
  \/ FL_WaitFound
  \/ FL_WaitRetry
  \/ FL_WaitFatal
  \/ FL_ExamineItem
  \/ FL_EndExtract
  \/ FL_ScrollCycle
  \/ FL_LoopExit
  \/ FL_Finalize
  \/ FL_BatchReturned
  \/ FL_NavigateBack
  \/ BatchNext

\* a complete run of find_links
Spec == Init /\ [][Next]_vars

\* artifacts a previous run can have left for post 1 of alice
Artifacts(userId, postId) ==
  {File(userId, TextName(postId)),
   File(userId, ImageName(postId, 1, ".jpg")),
   File(userId, VideoName(postId)),
   File(userId, VideoInfoName(postId)),
   File(userId, VideoErrorName(postId)),
   File(userId, ScreenshotName(postId)),
   File(userId, RateLimitedName(postId))}

\* a post URL on the former host name: no match for extractIds
UOld == <<"https://twitter.com", SLASH, "bob", SLASH, "status", SLASH, "429">>

BatchUrls == {ToUrl(H1), ToUrl(H2), ToUrl(HShort), UOld}

BatchLists ==
  UNION {[1..n -> BatchUrls] : n \in 1..MaxBatch}

\* processMultipleTweets called directly, on an output directory that holds
\* at most one artifact of an earlier run
InitBatch ==
  /\ DiscoveryIdle
  /\ ClassifyIdle
  /\ tweetUrls \in BatchLists
  /\ existingPage \in BOOLEAN
  /\ flPage = IF existingPage THEN "open" ELSE "none"
  /\ pageAt = BLANK
  /\ files \in {{}} \cup {{f} : f \in Artifacts(<<"alice">>, <<"1">>)}
  /\ bpc = "setup" /\ bi = 0
  /\ shouldClosePage = FALSE /\ ownPage = "none"
  /\ processedCount = 0 /\ skippedCount = 0 /\ rateLimitedCount = 0
  /\ navigated = {} /\ invoked = <<>> /\ outcomes = <<>> /\ pacing = <<>>
  /\ session = IF existingPage THEN "open" ELSE "none"
  /\ ObserverIdle
  /\ VideoIdle
  /\ MainIdle
  /\ ProviderIdle

SpecBatch == InitBatch /\ [][BatchNext]_vars

\* the classification applied to every article shape
InitClassify ==
  /\ DiscoveryIdle
  /\ BatchIdle
  /\ flPage = "none" /\ pageAt = BLANK /\ files = {}
  /\ item \in ArticleDoms
  /\ isSimple = "none"
  /\ faults = 0
  /\ session = "none" /\ ObserverIdle
  /\ VideoIdle
  /\ MainIdle
  /\ ProviderIdle

SpecClassify == InitClassify /\ [][Classify]_vars

\* processMultipleTweets run to its end: an awaited step always completes
SpecBatchFair == SpecBatch /\ WF_vars(BatchNext)

\* processMultipleTweets on a page that receives 429 responses
ObserverNext == BatchNext \/ ObsResponse \/ ObsWake

\* the batch starts on an empty output directory
InitObserver == InitBatch /\ files = {}

SpecObserver == InitObserver /\ [][ObserverNext]_vars

\* both entry points: find_links, or processMultipleTweets called directly
SpecScopes == (Init \/ InitBatch) /\ [][Next]_vars

\* downloadTwitterVideo called on a post URL
VideoCall ==
  /\ DiscoveryIdle
  /\ BatchIdle
  /\ ClassifyIdle
  /\ flPage = "none" /\ pageAt = BLANK /\ files = {}
  /\ session = "none" /\ ObserverIdle
  /\ vpc = "start" /\ tweetUrl \in VideoUrls /\ vBrowser = "none"
  /\ videoSegments = <<>> /\ audioSegments = <<>> /\ segmentsJson = <<>>
  /\ bestVideoQuality = <<>> /\ videoList = <<>> /\ audioList = <<>>
  /\ muxCalls = 0 /\ mp4 = "none" /\ cleanup = "none"
  /\ MainIdle
  /\ ProviderIdle

\* the scratch directory {tweetId}-temp does not exist yet
InitVideo == VideoCall /\ tempDir = FALSE /\ tempFiles = {}

SpecVideo == InitVideo /\ [][VideoNext]_vars

\* what an earlier call on the same post leaves in {tweetId}-temp when its
\* rmSync failed or the process was stopped: n video segments, and the
\* video list if it got that far
LeftoverSets ==
  {{SegName("video_", i) : i \in 0..(n - 1)} \cup l :
     n \in 1..MaxRequests, l \in {{}, {VideoListName}}}

\* downloadTwitterVideo called again on a post whose scratch directory
\* is still there
InitVideoRerun == VideoCall /\ tempDir = TRUE /\ tempFiles \in LeftoverSets

SpecVideoRerun == InitVideoRerun /\ [][VideoNext]_vars

\* get_browser_with_session and login called by a program that has just
\* loaded login.ts
InitSession ==
  /\ DiscoveryIdle
  /\ BatchIdle
  /\ ClassifyIdle
  /\ flPage = "none" /\ pageAt = BLANK /\ files = {}
  /\ session = "none" /\ ObserverIdle
  /\ VideoIdle
  /\ MainIdle
  /\ ProviderLoaded /\ sessionFile \in SessionFiles

SpecSession == InitSession /\ [][ProviderNext]_vars

\* the program started from a command line, up to the call of find_links
InitMain ==
  /\ DiscoveryIdle
  /\ BatchIdle
  /\ ClassifyIdle
  /\ flPage = "none" /\ pageAt = BLANK /\ files = {}
  /\ session = "none" /\ ObserverIdle
  /\ VideoIdle
  /\ args \in ArgLists /\ output_dir = ""
  /\ ProviderIdle

SpecMain == InitMain /\ [][Main]_vars

\* ------------------------------------------------------------------------
\* Properties
\* ------------------------------------------------------------------------
NoDuplicates(seq) ==
  \A i, j \in 1..Len(seq) : seq[i] = seq[j] => i = j

\* hrefs of the returned URLs
ReturnedHrefs == {RemoveFirstOrigin(finalLinks[i]) : i \in 1..Len(finalLinks)}

\* URLs handed to processMultipleTweets by find_links
HandedOver == UNION {Range(batchCalls[i]) : i \in 1..Len(batchCalls)}

\* the files a complete direct save of a post consists of
ExpectedSaved(href) ==
  IF href = H1 THEN {[dir |-> <<"alice">>, name |-> <<"1", ".txt">>]}
  ELSE IF href = H2
       THEN {[dir |-> <<"bob">>, name |-> <<"429", "-", "1", ".jpg">>],
             [dir |-> <<"bob">>, name |-> <<"429", "-", "2", ".png">>]}
       ELSE {}

\* C1: the list find_links returns holds no URL twice and, when limit is
\* non-zero, at most limit URLs.
C1_ReturnedUniqueAndCapped ==
  pc = "returned" =>
    /\ NoDuplicates(finalLinks)
    /\ limit > 0 => Len(finalLinks) <= limit

\* a run that returned a full list after scrolling and handing links over
C1_Witness ==
  /\ pc = "returned" /\ limit = 2 /\ Len(finalLinks) = 2
  /\ batchCalls # <<>>

\* C2: find_links never completes a fourth consecutive scroll cycle that
\* adds no link.
C2_AtMostThreeStableCycles == stableCycles <= 3

\* C3 as stated: with limit L > 0 and download enabled, collection stops
\* at the L-th link, the first L links are returned in discovery order and
\* every returned simple post has its text and images on disk at return.
C3_SimpleAllWritten ==
  /\ limit > 0 => Len(uniqueLinks) <= limit
  /\ (pc = "returned" /\ limit > 0 /\ download_content
        /\ Len(uniqueLinks) >= limit) =>
       /\ finalLinks = MapToUrls(SubSeq(uniqueLinks, 1, limit))
       /\ \A h \in ReturnedHrefs \cap simpleSeen : ExpectedSaved(h) \subseteq files

\* C3 amended: as above, but a returned simple post has had
\* saveSimpleContent called and finished exactly once before the return,
\* and its text and images are on disk when that call returned true.
C3_SimpleSavedBeforeReturn ==
  /\ limit > 0 => Len(uniqueLinks) <= limit
  /\ (pc = "returned" /\ limit > 0 /\ download_content
        /\ Len(uniqueLinks) >= limit) =>
       /\ finalLinks = MapToUrls(SubSeq(uniqueLinks, 1, limit))
       /\ \A h \in ReturnedHrefs \cap simpleSeen :
            /\ saveCalls[h] = 1
            /\ h \in saveOk => ExpectedSaved(h) \subseteq files

\* the limit of 2 was reached and both returned posts were saved directly
C3_Witness ==
  /\ pc = "returned" /\ limit = 2 /\ download_content
  /\ uniqueLinks = <<H1, H2>>
  /\ {H1, H2} \subseteq saveOk
  /\ ExpectedSaved(H1) \cup ExpectedSaved(H2) \subseteq files

\* C4: with download enabled, every URL find_links returns was either
\* saved directly or handed to processMultipleTweets before the return.
C4_EveryReturnedLinkHandled ==
  (pc = "returned" /\ download_content) =>
    \A i \in 1..Len(finalLinks) :
      \/ RemoveFirstOrigin(finalLinks[i]) \in processedTweets
      \/ finalLinks[i] \in HandedOver

\* C5: an article is classified complex exactly when it carries the video,
\* poll, card or one of the truncation markers; text and images play no part.
C5_ComplexIffMarker ==
  isSimple # "none" =>
    (isSimple = "complex" <=>
       \/ item.videoPlayer \/ item.cardPoll \/ item.cardWrapper
       \/ item.plainButton \/ item.autoSpan \/ item.showMoreSpan
       \/ item.collapsedLink)

\* a card-only article without text or images was classified complex
C5_Witness ==
  /\ isSimple = "complex"
  /\ item.cardWrapper /\ ~item.videoPlayer /\ ~item.cardPoll
  /\ ~item.plainButton /\ ~item.autoSpan /\ ~item.showMoreSpan
  /\ ~item.collapsedLink
  /\ item.text = "" /\ item.imageUrls = <<>>

\* C6: at the loop check another scroll cycle starts exactly when the link
\* limit was not hit, max_id is zero or not reached, and fewer than three
\* consecutive cycles left the Link Set unchanged.
C6_LoopContinuesIff ==
  [][pc = "loop" =>
       ((pc' = "extract") <=>
          ~(\/ LimitReached(limit, uniqueLinks)
            \/ (max_id # 0 /\ foundIds >= max_id)
            \/ stableCycles >= 3))]_vars

\* C7: the fatal error is thrown exactly when all five waits failed, and
\* then no link was extracted, nothing was saved or handed over and the
\* page was closed.
C7_FatalWait ==
  /\ pc = "thrown" <=> waitFails = 5
  /\ pc = "thrown" =>
       /\ uniqueLinks = <<>> /\ files = {} /\ finalLinks = <<>>
       /\ \A h \in Hrefs : saveCalls[h] = 0
       /\ batchCalls = <<>> /\ bpc = "idle"
       /\ flPage = "closed"

C7_Witness == pc = "thrown" /\ waitFails = 5 /\ flPage = "closed"

\* C8: with download enabled the posts saved directly are exactly the posts
\* that were simple when discovered, at every point between two examined
\* articles, and none of them is handed to processMultipleTweets or
\* navigated to; with download disabled nothing is saved or handed over.
C8_SimpleSavedAtOnce ==
  /\ download_content =>
       /\ processedTweets = simpleSeen
       /\ \A h \in Hrefs : saveCalls[h] > 0 <=> h \in simpleSeen
       /\ \A u \in HandedOver \cup navigated :
            RemoveFirstOrigin(u) \notin processedTweets
  /\ ~download_content =>
       /\ \A h \in Hrefs : saveCalls[h] = 0
       /\ files = {}
       /\ batchCalls = <<>> /\ bpc = "idle" /\ navigated = {}

\* a simple post was saved and the rest went through the batch
C8_Witness ==
  /\ download_content /\ pc = "returned"
  /\ simpleSeen # {} /\ navigated # {}
  /\ \E h \in simpleSeen : saveCalls[h] = 1

\* artifacts of a post named by the resume rule
HasArtifact(fs, userId, postId) ==
  \/ [dir |-> userId, name |-> postId \o <<".txt">>] \in fs
  \/ \E n \in {"1", "2", "3", "4"}, ext \in {".jpg", ".png", ".gif"} :
       [dir |-> userId, name |-> postId \o <<"-", n, ext>>] \in fs
  \/ [dir |-> userId, name |-> postId \o <<".mp4">>] \in fs
  \/ [dir |-> userId, name |-> postId \o <<"-", "video-info", ".txt">>] \in fs
  \/ [dir |-> userId, name |-> postId \o <<"-", "video-error", ".txt">>] \in fs
  \/ [dir |-> userId, name |-> postId \o <<"-", "rate-limited", ".txt">>]
       \in fs

\* C9: processTweetContent does not get past its resume test (it is about
\* to navigate) when one of the six artifacts exists for the post.
C9_SkipOnAnyArtifact ==
  bpc = "ptc_nav" => ~HasArtifact(files, CurIds.userId, CurIds.postId)

\* C10: a second call for a valid URL whose first call ended processed,
\* with an error or rate-limited is reported skipped.
C10_SecondCallSkipped ==
  \A i, j \in 1..Len(outcomes) :
    (/\ i < j
     /\ tweetUrls[i] = tweetUrls[j]
     /\ ExtractIds(tweetUrls[i]).ok
     /\ outcomes[i] \in {"processed", "error", "rate-limited"})
    => outcomes[j] = "skipped"


\* positions of processTweetContent after its resume test
ExtractionSteps == {"ptc_nav", "ptc_text", "ptc_images", "ptc_video"}

\* number of entries of seq that lie in S
CountOf(seq, S) == Cardinality({i \in 1..Len(seq) : seq[i] \in S})

\* C11: while a listener that saw a 429 response with a reset time in the
\* future is waiting, the extraction it was started under takes no
\* navigation or extraction step.
C11_SuspendedWhileWaiting ==
  [][(/\ bpc \in ExtractionSteps
      /\ \E k \in 1..Len(observers) : observers[k] = bi)
       => bpc' = bpc]_vars

\* C12: at the summary the rate-limited count is the number of posts whose
\* extraction ended with a rate-limit signal, and none of them is in the
\* skipped count.
C12_RateLimitedCountedApart ==
  bpc = "done" =>
    /\ rateLimitedCount = CountOf(outcomes, {"rate-limited", "thrown429"})
    /\ skippedCount = CountOf(outcomes, {"skipped", "error", "thrown"})

\* C13: no call of processTweetContent ends with an exception.
C13_NeverThrows ==
  \A i \in 1..Len(outcomes) : outcomes[i] \notin {"thrown429", "thrown"}

C16_RateLimitSignalMarked ==
  \A i \in 1..Len(outcomes) :
    outcomes[i] \in {"rate-limited", "thrown429"} =>
      LET ids == ExtractIds(tweetUrls[i]) IN
        /\ outcomes[i] = "rate-limited"
        /\ ids.ok
        /\ [dir |-> ids.userId,
            name |-> ids.postId \o <<"-", "rate-limited", ".txt">>] \in files

\* C17: at most one call of processTweetContent is in progress, the next
\* one starts only after the previous one has ended, and find_links takes
\* no step of its own while the batch runs.
C17_OnePostAtATime ==
  /\ Len(invoked) - Len(outcomes) \in {0, 1}
  /\ Len(invoked) = Len(outcomes) + 1 <=> bpc \in ExtractionSteps
  /\ bpc \in {"setup", "item"} \cup ExtractionSteps => pc = "batch"

\* the second post of a batch is being extracted
C17_Witness ==
  /\ pc = "batch" /\ bpc = "ptc_text" /\ bi = 2
  /\ Len(invoked) = 2 /\ Len(outcomes) = 1

\* C18: find_links has closed its page when it is over, nothing closes the
\* browser or the context, and processMultipleTweets closes exactly the
\* page it created.
C18_PagesClosedByOwner ==
  /\ pc \in {"returned", "thrown"} => flPage = "closed"
  /\ session # "closed"
  /\ bpc = "done" => (ownPage = "closed" <=> ~existingPage)
  /\ (existingPage /\ pc \in {"caller", "batch"}) => flPage = "open"

\* a batch that made its own page has closed it
C18_Witness ==
  /\ bpc = "done" /\ ~existingPage /\ ownPage = "closed"
  /\ session = "open" /\ Len(outcomes) = 2

\* W*H of a resolution key (0: not a resolution key)
PixelCount(key) ==
  IF key = <<"1280", "x", "720">> THEN 921600
  ELSE IF key = <<"640", "x", "360">> THEN 230400
  ELSE 0

\* C19: when every captured video group has a resolution key, the selected
\* key is one of them and no group has a larger W*H.
C19_LargestAreaSelected ==
  LET keys == Range(KeysOf(groupSegmentsByQuality(videoSegments))) IN
    (bestVideoQuality # <<>> /\ \A k \in keys : PixelCount(k) > 0) =>
      /\ bestVideoQuality \in keys
      /\ \A k \in keys : PixelCount(bestVideoQuality) >= PixelCount(k)

\* 640x360 was captured first and 1280x720 was selected
C19_Witness ==
  /\ bestVideoQuality = <<"1280", "x", "720">>
  /\ videoSegments = <<V360a, V720a>>

\* C20 as stated: once downloadTwitterVideo has launched its browser and
\* made the scratch directory, it ends with the directory gone and the
\* browser closed.
C20_ScratchRemoved ==
  (vpc = "returned" /\ vBrowser # "none") =>
    ~tempDir /\ vBrowser = "closed"

\* C20 amended: it ends with the browser closed and the removal of the
\* scratch directory attempted; the directory is gone unless that removal
\* failed.
C20_ScratchRemovalAttempted ==
  (vpc = "returned" /\ vBrowser # "none") =>
    /\ vBrowser = "closed"
    /\ cleanup # "none"
    /\ cleanup = "removed" => ~tempDir /\ tempFiles = {}
    /\ cleanup = "failed" => tempDir

\* the muxer failed and the scratch directory was removed
C20_Witness ==
  /\ vpc = "returned" /\ muxCalls = 1 /\ mp4 = "none"
  /\ cleanup = "removed" /\ ~tempDir /\ vBrowser = "closed"


\* C21: once the muxer has been run and has failed, downloadTwitterVideo
\* still returns without an exception, {tweetId}-segments.json is on disk
\* and there is no file {tweetId}.mp4.
C21_MuxFailureLeavesNoVideo ==
  (muxCalls = 1 /\ mp4 # "complete") =>
    /\ vpc \in {"finally", "returned"}
    /\ segmentsJson # <<>>
    /\ mp4 = "none"

C23_DocumentedDefaults ==
  pc = "start" =>
    /\ Omitted(args, 2) => max_id = 50
    /\ Omitted(args, 3) => limit = 20
    /\ Omitted(args, 4) => download_content
    /\ Omitted(args, 5) => output_dir = "./output"

\* C24: a 'response' listener is attached to the page only while a post is
\* being extracted, never more than one, and no 429 response starts more
\* than one wait-and-reload.
C24_ObserverTransient ==
  /\ listeners <= 1
  /\ bpc \notin ExtractionSteps => listeners = 0
  /\ Len(observers) + reloads <= Len(responses)

\* C26: the page is reloaded by a listener only while the post under which
\* that listener started to wait is still being extracted.
C26_ReloadBeforeReturn ==
  [][reloads' # reloads =>
       /\ bpc \in ExtractionSteps
       /\ \E k \in 1..Len(observers) :
            observers[k] = bi /\ observers' = RemoveAt(observers, k)]_vars

\* the response carries no reset header, or its reset time is not after
\* Date.now()
NoFutureReset(r) ==
  r.reset = "" \/ (CHOOSE n \in 1..3 : NumStr(n) = r.reset) * 1000 <= r.now

\* C29: a 429 response without a reset time in the future leaves the
\* listeners' waits, the reloads, the position of the extraction, the page
\* and the files as they are; while no other kind of response has come, no
\* listener waits and nothing is reloaded.
C29_NoWaitWithoutFutureReset ==
  /\ [][(/\ Len(responses') = Len(responses) + 1
          /\ NoFutureReset(responses'[Len(responses')]))
           => UNCHANGED <<observers, reloads, batchVars, pageAt, files>>]_vars
  /\ []((\A i \in 1..Len(responses) : NoFutureReset(responses[i]))
          => observers = <<>> /\ reloads = 0)

\* a post was processed to its end after such a response had come
C29_Witness ==
  /\ Len(responses) = 1 /\ NoFutureReset(responses[1])
  /\ listeners = 1 /\ bpc = "done"
  /\ outcomes = <<"processed">> /\ reloads = 0

\* C25: no step of processTweetContent writes a file other than the
\* rate-limit marker while the page still shows the document of another
\* post or the profile timeline.
C25_ArtifactsFromOwnPage ==
  [][(/\ bpc \in {"ptc_text", "ptc_images", "ptc_video"}
      /\ \E f \in files' \ files :
           f.name # RateLimitedName(CurIds.postId))
       => pageAt \in {CurUrl, BLANK}]_vars

\* C27: a call of safeNavigate always comes back, leaving the page on the
\* target or where it was, and its caller goes on: find_links to the wait
\* for content or to its return, processTweetContent to the text
\* extraction; find_links throws only from the last failed wait for
\* content.
C27_NavigationFailureNotFatal ==
  [][/\ (pc = "start" /\ pc' # pc) =>
          pc' = "wait" /\ pageAt' \in {pageAt, PROFILE}
     /\ (pc = "navback" /\ pc' # pc) =>
          pc' = "returned" /\ pageAt' \in {pageAt, PROFILE}
             /\ finalLinks' = finalLinks
     /\ (bpc = "ptc_nav" /\ bpc' # bpc) =>
          bpc' = "ptc_text" /\ pageAt' \in {pageAt, tweetUrls[bi]}
             /\ outcomes' = outcomes
     /\ (pc' = "thrown" /\ pc # "thrown") =>
          pc = "wait" /\ waitTry = MAX_RETRIES - 1]_vars

\* processTweetContent is past the text extraction of a post whose
\* navigation failed
C27_Witness ==
  /\ pc = "batch" /\ bpc = "ptc_images"
  /\ pageAt = PROFILE /\ faults = 1

\* C28: processTweetContent called with a URL that extractIds does not
\* match ends at once: no navigation, no listener, no file, and the batch
\* loop is at the next URL.
C28_MalformedUrlFailsFast ==
  [][(/\ bpc = "item" /\ bi <= Len(tweetUrls)
      /\ ~ExtractIds(tweetUrls[bi]).ok
      /\ invoked' # invoked)
       => /\ UNCHANGED <<navigated, listeners, files, pageAt>>
          /\ bpc' = "item" /\ bi' = bi + 1
          /\ Len(outcomes') = Len(outcomes) + 1]_vars

\* the post after a malformed URL has been processed
C28_Witness ==
  /\ bpc = "done" /\ Len(tweetUrls) = 2
  /\ ~ExtractIds(tweetUrls[1]).ok
  /\ outcomes[2] = "processed" /\ files # {}

\* C30: examining an article whose href is already in uniqueLinks changes
\* neither the set, nor foundIds, nor the recorded classification, nor
\* the files, and does not call saveSimpleContent; no href is saved
\* directly more than once in a run.
C30_ReseenIsNoOp ==
  /\ [][(pc = "extract" /\ seen' = seen + 1 /\ uniqueLinks' = uniqueLinks)
          => UNCHANGED <<pc, foundIds, processedTweets, simpleSeen,
                         saveCalls, saveOk, files, finalLinks>>]_vars
  /\ [](/\ NoDuplicates(uniqueLinks)
        /\ \A h \in Hrefs : saveCalls[h] <= 1)

\* an article saved directly in an earlier cycle was examined again in a
\* scroll cycle that has added no link
C30_Witness ==
  /\ pc = "extract" /\ phase = "scroll" /\ seen = 1
  /\ uniqueLinks = <<H1>> /\ saveCalls[H1] = 1

\* C31: with limit > 0 uniqueLinks never holds more than limit hrefs; the
\* list find_links returns is then all of uniqueLinks, and it contains
\* every href that was saved directly.
C31_LinkSetWithinLimit ==
  limit > 0 =>
    /\ Len(uniqueLinks) <= limit
    /\ pc = "returned" =>
         /\ finalLinks = MapToUrls(uniqueLinks)
         /\ \A h \in processedTweets : ToUrl(h) \in Range(finalLinks)

\* the limit was reached in a scroll cycle, after a direct save
C31_Witness ==
  /\ pc = "returned" /\ limit = 2 /\ Len(finalLinks) = 2
  /\ processedTweets # {} /\ batchCalls # <<>>

\* C32: a call of saveSimpleContent that returned false leaves its href in
\* uniqueLinks and in processedTweets; find_links does not throw because
\* of it, returns the link, and hands it to no call of
\* processMultipleTweets.
C32_SaveFailureKeepsLink ==
  /\ pc = "thrown" => \A h \in Hrefs : saveCalls[h] = 0
  /\ \A h \in Hrefs :
       (saveCalls[h] > 0 /\ h \notin saveOk) =>
         /\ h \in Range(uniqueLinks)
         /\ h \in processedTweets
         /\ pc = "returned" => ToUrl(h) \in Range(finalLinks)
         /\ \A c \in 1..Len(batchCalls) :
              ToUrl(h) \notin Range(batchCalls[c])

\* the text of a simple post could not be written, another post went
\* through the batch, and find_links has returned both
C32_Witness ==
  /\ pc = "returned" /\ faults = 1
  /\ saveCalls[H1] = 1 /\ H1 \notin saveOk
  /\ ToUrl(H1) \in Range(finalLinks)
  /\ Len(batchCalls) = 1

\* the text file of the post of URL u
TextFileOf(u) ==
  File(ExtractIds(u).userId, TextName(ExtractIds(u).postId))

\* C33 as stated: every post whose extraction reached the text step passes
\* for done in the resume test once processTweetContent is over.
C33_TextStepMarksDone ==
  \A i \in 1..Len(outcomes) :
    tweetUrls[i] \in navigated =>
      AlreadyProcessed(files, ExtractIds(tweetUrls[i]).userId,
                       ExtractIds(tweetUrls[i]).postId)

\* C33 amended: the extraction goes on from the text step only with the
\* text file written, whether the post element was found or not; a post
\* for which processTweetContent returned true has its text file and
\* passes for done in the resume test.
C33_TextFileUnlessWriteFails ==
  /\ bpc \in {"ptc_images", "ptc_video"} => TextFileOf(CurUrl) \in files
  /\ \A i \in 1..Len(outcomes) :
       outcomes[i] = "processed" =>
         /\ TextFileOf(tweetUrls[i]) \in files
         /\ AlreadyProcessed(files, ExtractIds(tweetUrls[i]).userId,
                             ExtractIds(tweetUrls[i]).postId)

\* the navigation to the first post worked, the post element was not
\* found, and the extraction is past the text step with the file written
C33_Witness ==
  /\ bpc = "ptc_images" /\ bi = 1 /\ pageAt = CurUrl
  /\ faults = 1 /\ files = {TextFileOf(CurUrl)}

\* the last step was the video step of processTweetContent for item bi
VideoStepDone == bpc = "ptc_video" /\ bpc' # bpc

\* files the video step can write for the post it works on
InfoFile == File(CurIds.userId, VideoInfoName(CurIds.postId))
ErrorFile == File(CurIds.userId, VideoErrorName(CurIds.postId))
ShotFile == File(CurIds.userId, ScreenshotName(CurIds.postId))

\* C34 as stated: the video step always ends with the post processed; on
\* a page with a video player it leaves the video-info file, or the
\* video-error file when the video handling failed; it never writes both.
C34_VideoPlaceholders ==
  [][VideoStepDone =>
       /\ outcomes' = Append(outcomes, "processed")
       /\ PageHasVideo(pageAt) =>
            InfoFile \in files' \/ ErrorFile \in files'
       /\ ~(InfoFile \in files' \ files /\ ErrorFile \in files' \ files)
    ]_vars

\* C34 amended: the video step on a page with a video player ends with
\* the post processed and the video-info or the video-error file left,
\* unless neither could be written; the screenshot is only taken on such
\* a page; the post fails only when the error file could not be written;
\* the step never writes both files.
C34_VideoPlaceholdersUnlessWriteFails ==
  [][VideoStepDone =>
       LET new == files' \ files
           processed == outcomes' = Append(outcomes, "processed")
       IN /\ ~(InfoFile \in new /\ ErrorFile \in new)
          /\ ShotFile \in new => PageHasVideo(pageAt)
          /\ (processed /\ PageHasVideo(pageAt)) =>
               InfoFile \in new \/ ErrorFile \in new
          /\ ~processed => InfoFile \notin new /\ ErrorFile \notin new
    ]_vars

\* a video player was found, the screenshot could not be taken, the info
\* file was written and the post counted as processed
C34_Witness ==
  /\ bpc = "item" /\ outcomes = <<"processed">> /\ faults = 1
  /\ pageAt = ToUrl(H1)
  /\ File(<<"alice">>, VideoInfoName(<<"1">>)) \in files
  /\ File(<<"alice">>, ScreenshotName(<<"1">>)) \notin files

\* C35: when a captured video group has a WxH key, the selected key is a
\* WxH key.
C35_UnparseableSortsLast ==
  LET keys == Range(KeysOf(groupSegmentsByQuality(videoSegments))) IN
    (bestVideoQuality # <<>> /\ \E k \in keys : PixelCount(k) > 0) =>
      PixelCount(bestVideoQuality) > 0

\* the quality key each request URL is expected under
ExpectedKey(url) ==
  CASE url \in {V720a, V720b} -> <<"1280", "x", "720">>
    [] url = V360a -> <<"640", "x", "360">>
    [] url = A128a -> <<"128kbps">>
    [] OTHER -> <<"unknown">>

\* the URLs of segments expected under key, in input order
UrlsUnder(segments, key) ==
  LET Test(u) == ExpectedKey(u) = key IN SelectSeq(segments, Test)

\* groups is the partition of segments by expected key
IsPartition(groups, segments) ==
  /\ NoDuplicates(KeysOf(groups))
  /\ Range(KeysOf(groups)) = {ExpectedKey(segments[i]) : i \in 1..Len(segments)}
  /\ \A i \in 1..Len(groups) :
       /\ groups[i].urls # <<>>
       /\ groups[i].urls = UrlsUnder(segments, groups[i].key)

\* C36: the groups made of the captured video URLs and of the captured
\* audio URLs have distinct keys, are not empty, and each holds exactly
\* the input URLs of its key, in input order.
C36_GroupsPartitionInput ==
  vpc \notin {"start", "goto", "player", "capture"} =>
    /\ IsPartition(groupSegmentsByQuality(videoSegments), videoSegments)
    /\ IsPartition(groupSegmentsByQuality(audioSegments), audioSegments)

\* two qualities captured interleaved, and audio
C36_Witness ==
  /\ vpc = "select"
  /\ videoSegments = <<V720a, V360a, V720b>>
  /\ audioSegments = <<>>

\* C37: once the video list is written it names exactly the files the
\* selected video segments were downloaded to, in capture order, and so
\* does the audio list for the segments of the audio group.
C37_ManifestListsDownloads ==
  LET vs == GroupOf(groupSegmentsByQuality(videoSegments), bestVideoQuality)
      ags == groupSegmentsByQuality(audioSegments)
      as == IF ags = <<>> THEN <<>> ELSE ags[1].urls
  IN /\ videoList # <<>> =>
          videoList = [i \in 1..Len(vs) |-> SegName("video_", i - 1)]
     /\ audioList # <<>> =>
          audioList = [i \in 1..Len(as) |-> SegName("audio_", i - 1)]

\* C38: between two calls of the session provider at most one browser it
\* launched is open, and the global handles are both null or both refer
\* to that browser.
C38_AtMostOneOpenBrowser ==
  gpc = "idle" =>
    /\ Cardinality(openBrowsers) <= 1
    /\ \/ globalBrowser = 0 /\ globalContext = 0
       \/ /\ globalBrowser = globalContext
          /\ openBrowsers = {globalBrowser}

====
